---- MODULE Spec2Model ----
(***************************************************************************)
(* Model of the LAN screen-broadcast pipeline (src-tauri/src):             *)
(*   broadcast/rtp.rs      RtpHeader, RtpPacketizer, RtpDepacketizer       *)
(*   broadcast/network.rs  RtpSender::send_frame, RtpReceiver::receive_frame*)
(*   broadcast/encoder.rs  H264Encoder (keyframe cadence of the encoder)   *)
(*   commands.rs           run_teacher, run_student                        *)
(*   broadcast/native_viewer.rs  run_receiver, is_h264_keyframe            *)
(* Byte strings are sequences of integers 0..255.  The source indexes from *)
(* 0; At(d, i) reads data[i] and Slice(d, a, b) is &data[a..b].            *)
(* A u32 (timestamp, ssrc, frame_time_ms) is kept as its four bytes, most  *)
(* significant first, and a u64 as eight, so that the arithmetic of the    *)
(* source keeps its width.                                                 *)
(***************************************************************************)
EXTENDS Integers, Sequences, FiniteSets, TLC

\* ------------------------------------------------------------------------
\* Program constants (rtp.rs)
\* ------------------------------------------------------------------------
RTP_VERSION == 2
RTP_PAYLOAD_TYPE_H264 == 96
RTP_HEADER_SIZE == 12
MAX_RTP_PAYLOAD == 1400
CLOCK_RATE == 90000

U16 == 65536

\* ------------------------------------------------------------------------
\* Byte-string helpers
\* ------------------------------------------------------------------------
At(d, i) == d[i + 1]

Slice(d, a, b) == SubSeq(d, a + 1, b)

Min(S) == CHOOSE x \in S : \A y \in S : x <= y

BoolToInt(b) == IF b THEN 1 ELSE 0

\* (x >> 8*k) as u8 of a u32 x
U32Byte(x, k) == x[4 - k]

U32Zero == << 0, 0, 0, 0 >>

\* x as u64 of a u32 x
U64From(x) == << 0, 0, 0, 0 >> \o x

\* x as u32 of a u64 x
U32From(x) == SubSeq(x, 5, 8)

Reverse(x) == [i \in 1..Len(x) |-> x[Len(x) + 1 - i]]

\* x * m on bytes least significant first; the source's product fits u64
RECURSIVE MulLE(_, _, _)
MulLE(x, m, carry) ==
    IF x = <<>> THEN <<>>
    ELSE LET v == Head(x) * m + carry
         IN << v % 256 >> \o MulLE(Tail(x), m, v \div 256)

\* x / m on bytes most significant first
RECURSIVE DivBE(_, _, _)
DivBE(x, m, rem) ==
    IF x = <<>> THEN <<>>
    ELSE LET v == rem * 256 + Head(x)
         IN << v \div m >> \o DivBE(Tail(x), m, v % m)

U64Mul(x, m) == Reverse(MulLE(Reverse(x), m, 0))

U64Div(x, m) == DivBE(x, m, 0)

\* Option<Vec<u8>>::None; a returned frame is never empty (rtp.rs:404)
NoFrame == <<>>

\* Option<u16>::None of expected_sequence
NoSeq == -1

\* ------------------------------------------------------------------------
\* RtpHeader (rtp.rs:24-110)
\* ------------------------------------------------------------------------
RtpHeader_new(ssrc) ==
    [version |-> RTP_VERSION, padding |-> FALSE, extension |-> FALSE,
     csrc_count |-> 0, marker |-> FALSE, payload_type |-> RTP_PAYLOAD_TYPE_H264,
     sequence |-> 0, timestamp |-> U32Zero, ssrc |-> ssrc]

RtpHeader_serialize(h) ==
    << ((h.version * 64) % 256) + BoolToInt(h.padding) * 32
          + BoolToInt(h.extension) * 16 + (h.csrc_count % 16),
       BoolToInt(h.marker) * 128 + (h.payload_type % 128),
       (h.sequence \div 256) % 256,
       h.sequence % 256,
       U32Byte(h.timestamp, 3),
       U32Byte(h.timestamp, 2),
       U32Byte(h.timestamp, 1),
       U32Byte(h.timestamp, 0),
       U32Byte(h.ssrc, 3),
       U32Byte(h.ssrc, 2),
       U32Byte(h.ssrc, 1),
       U32Byte(h.ssrc, 0) >>

\* parse returns None (here: [ok |-> FALSE]) for a short datagram or a
\* version other than 2
RtpHeader_parse(data) ==
    IF Len(data) < RTP_HEADER_SIZE THEN [ok |-> FALSE]
    ELSE IF (At(data, 0) \div 64) % 4 # RTP_VERSION THEN [ok |-> FALSE]
    ELSE [ok |-> TRUE,
          version |-> (At(data, 0) \div 64) % 4,
          padding |-> (At(data, 0) \div 32) % 2 = 1,
          extension |-> (At(data, 0) \div 16) % 2 = 1,
          csrc_count |-> At(data, 0) % 16,
          marker |-> (At(data, 1) \div 128) % 2 = 1,
          payload_type |-> At(data, 1) % 128,
          sequence |-> At(data, 2) * 256 + At(data, 3),
          timestamp |-> << At(data, 4), At(data, 5), At(data, 6), At(data, 7) >>,
          ssrc |-> << At(data, 8), At(data, 9), At(data, 10), At(data, 11) >>]

\* NalType::from (rtp.rs:129-146): the enum variant of val & 0x1F
NalType_from(val) ==
    LET t == val % 32
    IN CASE t = 1 -> "Slice"
         [] t = 2 -> "SliceA"
         [] t = 3 -> "SliceB"
         [] t = 4 -> "SliceC"
         [] t = 5 -> "Idr"
         [] t = 6 -> "Sei"
         [] t = 7 -> "Sps"
         [] t = 8 -> "Pps"
         [] t = 9 -> "Aud"
         [] t = 28 -> "FuA"
         [] t = 29 -> "FuB"
         [] OTHER -> "Unknown"

\* ------------------------------------------------------------------------
\* RtpPacketizer (rtp.rs:149-308)
\* ------------------------------------------------------------------------
\* the start-code test of find_nal_units at position i (rtp.rs:199-206):
\* 0 when no start code is found, else code_len
StartCodeLen(data, i) ==
    IF i + 3 < Len(data) /\ At(data, i) = 0 /\ At(data, i + 1) = 0
    THEN IF At(data, i + 2) = 1 THEN 3
         ELSE IF i + 4 < Len(data) /\ At(data, i + 2) = 0 /\ At(data, i + 3) = 1
              THEN 4
              ELSE 0
    ELSE 0

\* prev_start / nal_start (rtp.rs:212-218, 234-240): the first byte behind
\* the start code that begins at start
NalStart(data, start) ==
    IF At(data, start) = 0 /\ At(data, start + 1) = 0 /\ At(data, start + 2) = 1
    THEN start + 3
    ELSE IF start + 4 <= Len(data) /\ At(data, start) = 0 /\ At(data, start + 1) = 0
            /\ At(data, start + 2) = 0 /\ At(data, start + 3) = 1
         THEN start + 4
         ELSE start

\* the positions at which the start-code test succeeds
StartCodes(data) == {j \in 0..(Len(data) - 1) : StartCodeLen(data, j) > 0}

\* the while loop of find_nal_units (rtp.rs:197-230), one recursion per
\* start code found: i advances by 1 until the test succeeds at j
RECURSIVE FindLoop(_, _, _, _, _)
FindLoop(data, codes, units, start, i) ==
    LET found == {j \in codes : j >= i}
    IN IF found = {} THEN [units |-> units, start |-> start]
       ELSE LET j == Min(found)
                saved == IF start < j /\ j > start /\ start + 3 < j
                            /\ NalStart(data, start) < j
                         THEN Append(units, Slice(data, NalStart(data, start), j))
                         ELSE units
            IN FindLoop(data, codes, saved, j, j + StartCodeLen(data, j))

\* find_nal_units (rtp.rs:192-247)
find_nal_units(data) ==
    LET r == FindLoop(data, StartCodes(data), <<>>, 0, 0)
    IN IF r.start < Len(data) /\ NalStart(data, r.start) < Len(data)
       THEN Append(r.units, Slice(data, NalStart(data, r.start), Len(data)))
       ELSE r.units

\* payload.chunks(n)
RECURSIVE chunks(_, _)
chunks(payload, n) ==
    IF Len(payload) = 0 THEN <<>>
    ELSE IF Len(payload) <= n THEN << payload >>
    ELSE << SubSeq(payload, 1, n) >> \o chunks(SubSeq(payload, n + 1, Len(payload)), n)

\* self.sequence.wrapping_add(1) (rtp.rs:268, 302)
WrappingAddSat(sequence) == IF sequence = U16 - 1 THEN sequence ELSE sequence + 1

WrappingAdd(sequence) == (sequence + 1) % U16

\* fu_indicator (rtp.rs:273-276): nri | 28 with nri = nal_header & 0x60
FuIndicatorOneBit(nal_header) == ((nal_header \div 64) % 2) * 64 + 28

FuIndicator(nal_header) == ((nal_header \div 32) % 4) * 32 + 28

FuHeaderStartAlways(nal_header, is_first, is_last) ==
    128 + BoolToInt(is_last) * 64 + (nal_header % 32)

\* fu_header (rtp.rs:286-288)
FuHeader(nal_header, is_first, is_last) ==
    BoolToInt(is_first) * 128 + BoolToInt(is_last) * 64 + (nal_header % 32)

\* header.marker of a fragment (rtp.rs:293)
FuMarkerEveryNal(is_last, is_last_nal) == is_last

FuMarker(is_last, is_last_nal) == is_last /\ is_last_nal

\* the header of one packet (rtp.rs:258-261, 290-293)
PacketHeader(ssrc, sequence, timestamp, marker) ==
    [RtpHeader_new(ssrc) EXCEPT !.sequence = sequence, !.timestamp = timestamp,
                                !.marker = marker]

\* the for loop over chunks (rtp.rs:281-303): fragment i and the ones after it
RECURSIVE FuLoop(_, _, _, _, _, _, _)
FuLoop(ssrc, sequence, timestamp, nal_header, cs, i, is_last_nal) ==
    IF i >= Len(cs) THEN [packets |-> <<>>, sequence |-> sequence]
    ELSE LET is_first == i = 0
             is_last == i = Len(cs) - 1
             header == PacketHeader(ssrc, sequence, timestamp,
                                    FuMarker(is_last, is_last_nal))
             packet == RtpHeader_serialize(header)
                         \o << FuIndicator(nal_header),
                               FuHeader(nal_header, is_first, is_last) >>
                         \o cs[i + 1]
             rest == FuLoop(ssrc, WrappingAdd(sequence), timestamp, nal_header, cs,
                            i + 1, is_last_nal)
         IN [packets |-> << packet >> \o rest.packets, sequence |-> rest.sequence]

\* packetize_nal (rtp.rs:249-307): the packets of one NAL and the sequence
\* counter after them
packetize_nal(ssrc, sequence, timestamp, nal, is_last_nal) ==
    IF Len(nal) = 0 THEN [packets |-> <<>>, sequence |-> sequence]
    ELSE IF Len(nal) <= MAX_RTP_PAYLOAD
    THEN [packets |-> << RtpHeader_serialize(
                            PacketHeader(ssrc, sequence, timestamp, is_last_nal))
                         \o nal >>,
          sequence |-> WrappingAdd(sequence)]
    ELSE FuLoop(ssrc, sequence, timestamp, At(nal, 0),
                chunks(Slice(nal, 1, Len(nal)), MAX_RTP_PAYLOAD - 2), 0, is_last_nal)

\* the for loop of packetize over nal_units (rtp.rs:183-187)
RECURSIVE PacketizeLoop(_, _, _, _, _, _)
PacketizeLoop(ssrc, sequence, timestamp, nal_units, i, packets) ==
    IF i >= Len(nal_units) THEN [packets |-> packets, sequence |-> sequence]
    ELSE LET is_last == i = Len(nal_units) - 1
             r == packetize_nal(ssrc, sequence, timestamp, nal_units[i + 1], is_last)
         IN PacketizeLoop(ssrc, r.sequence, timestamp, nal_units, i + 1,
                          packets \o r.packets)

\* self.timestamp of packetize (rtp.rs:178)
RtpTimestampIn32(frame_time_ms) ==
    U32From(U64Div(U64From(U32From(U64Mul(U64From(frame_time_ms), CLOCK_RATE))), 1000))

RtpTimestamp(frame_time_ms) ==
    U32From(U64Div(U64Mul(U64From(frame_time_ms), CLOCK_RATE), 1000))

\* packetize (rtp.rs:174-190) on packetizer state p = [ssrc, sequence, timestamp]
packetize(p, h264_data, frame_time_ms) ==
    LET ts == RtpTimestamp(frame_time_ms)
        r == PacketizeLoop(p.ssrc, p.sequence, ts, find_nal_units(h264_data), 0, <<>>)
    IN [packets |-> r.packets,
        p |-> [ssrc |-> p.ssrc, sequence |-> r.sequence, timestamp |-> ts]]

\* ------------------------------------------------------------------------
\* RtpDepacketizer (rtp.rs:311-411)
\* ------------------------------------------------------------------------
RtpDepacketizer_new ==
    [expected_sequence |-> NoSeq, current_frame |-> <<>>, current_timestamp |-> U32Zero,
     fu_buffer |-> <<>>, fu_started |-> FALSE]

StartCode4 == << 0, 0, 0, 1 >>

AfterSeqCheckClearsFrame(d, header) ==
    LET gap == d.expected_sequence # NoSeq /\ header.sequence # d.expected_sequence
    IN [d EXCEPT !.fu_buffer = IF gap THEN <<>> ELSE @,
                 !.fu_started = IF gap THEN FALSE ELSE @,
                 !.current_frame = IF gap THEN <<>> ELSE @,
                 !.expected_sequence = (header.sequence + 1) % U16]

AfterSeqCheckKeepsFu(d, header) ==
    [d EXCEPT !.expected_sequence = (header.sequence + 1) % U16]

\* the sequence check of depacketize (rtp.rs:343-352)
AfterSeqCheck(d, header) ==
    LET gap == d.expected_sequence # NoSeq /\ header.sequence # d.expected_sequence
    IN [d EXCEPT !.fu_buffer = IF gap THEN <<>> ELSE @,
                 !.fu_started = IF gap THEN FALSE ELSE @,
                 !.expected_sequence = (header.sequence + 1) % U16]

AfterTsCheckKeepsFrame(d, header) ==
    IF header.timestamp # d.current_timestamp
    THEN [d EXCEPT !.current_timestamp = header.timestamp]
    ELSE d

\* the new-frame check (rtp.rs:354-358)
AfterTsCheck(d, header) ==
    IF header.timestamp # d.current_timestamp
    THEN [d EXCEPT !.current_frame = <<>>, !.current_timestamp = header.timestamp]
    ELSE d

\* the FuA arm (rtp.rs:364-395), payload of at least 2 bytes
AfterFuA(d, payload) ==
    LET fu_indicator == At(payload, 0)
        fu_header == At(payload, 1)
        is_start == (fu_header \div 128) % 2 = 1
        is_end == (fu_header \div 64) % 2 = 1
        nal_type == fu_header % 32
        nal_header == (fu_indicator \div 32) * 32 + nal_type
        d1 == IF is_start
              THEN [d EXCEPT !.fu_buffer = << nal_header >>, !.fu_started = TRUE]
              ELSE d
        d2 == IF d1.fu_started
              THEN [d1 EXCEPT !.fu_buffer = @ \o Slice(payload, 2, Len(payload))]
              ELSE d1
    IN IF is_end /\ d2.fu_started
       THEN [d2 EXCEPT !.current_frame = @ \o StartCode4 \o d2.fu_buffer,
                       !.fu_buffer = <<>>,
                       !.fu_started = FALSE]
       ELSE d2

\* the single-NAL arm (rtp.rs:396-400)
AfterSingle(d, payload) ==
    [d EXCEPT !.current_frame = @ \o StartCode4 \o payload]

\* the marker check (rtp.rs:403-409)
AfterMarker(d, header) ==
    IF header.marker /\ Len(d.current_frame) # 0
    THEN [d |-> [d EXCEPT !.current_frame = <<>>], frame |-> d.current_frame]
    ELSE [d |-> d, frame |-> NoFrame]

depacketizeAnyPayloadType(d, rtp_data) ==
    LET header == RtpHeader_parse(rtp_data)
    IN IF ~header.ok THEN [d |-> d, frame |-> NoFrame]
       ELSE LET payload == Slice(rtp_data, RTP_HEADER_SIZE, Len(rtp_data))
            IN IF Len(payload) = 0 THEN [d |-> d, frame |-> NoFrame]
               ELSE LET d1 == AfterTsCheck(AfterSeqCheck(d, header), header)
                    IN IF NalType_from(At(payload, 0)) = "FuA"
                       THEN IF Len(payload) < 2 THEN [d |-> d1, frame |-> NoFrame]
                            ELSE AfterMarker(AfterFuA(d1, payload), header)
                       ELSE AfterMarker(AfterSingle(d1, payload), header)

\* depacketize (rtp.rs:331-410): the state after the datagram and the frame
\* returned (NoFrame for None)
depacketize(d, rtp_data) ==
    LET header == RtpHeader_parse(rtp_data)
    IN IF ~header.ok THEN [d |-> d, frame |-> NoFrame]
       ELSE IF header.payload_type # RTP_PAYLOAD_TYPE_H264 THEN [d |-> d, frame |-> NoFrame]
       ELSE LET payload == Slice(rtp_data, RTP_HEADER_SIZE, Len(rtp_data))
            IN IF Len(payload) = 0 THEN [d |-> d, frame |-> NoFrame]
               ELSE LET d1 == AfterTsCheck(AfterSeqCheck(d, header), header)
                    IN IF NalType_from(At(payload, 0)) = "FuA"
                       THEN IF Len(payload) < 2 THEN [d |-> d1, frame |-> NoFrame]
                            ELSE AfterMarker(AfterFuA(d1, payload), header)
                       ELSE AfterMarker(AfterSingle(d1, payload), header)

\* ------------------------------------------------------------------------
\* Inputs: access units in Annex-B form
\* ------------------------------------------------------------------------
\* byte k (k >= 1) of the body of a NAL of n bytes: non-zero bytes, with an
\* emulation-prevented run 00 00 03 every 97 bytes and a non-zero last byte,
\* as in a valid NAL (no start code inside, no trailing zero)
BodyByte(k, n) ==
    IF k = n - 1 THEN 128
    ELSE IF k % 97 \in {10, 11} /\ k + 2 < n THEN 0
    ELSE IF k % 97 = 12 THEN 3
    ELSE ((k * 37) % 255) + 1

\* a NAL of n >= 1 bytes with header byte hdr
Nal(hdr, n) == << hdr >> \o [k \in 1..(n - 1) |-> BodyByte(k, n)]

\* a start code of sc bytes: 00 00 01, 00 00 00 01, or 00 00 00 01 with
\* sc - 4 zero bytes of padding in front
StartCode(sc) == [i \in 1..(sc - 1) |-> 0] \o << 1 >>

\* an access unit is described by its NALs in order, each [hdr, n, sc]:
\* header byte, length and the length of the start code in front of it
RECURSIVE AnnexB(_)
AnnexB(descs) ==
    IF descs = <<>> THEN <<>>
    ELSE StartCode(Head(descs).sc) \o Nal(Head(descs).hdr, Head(descs).n)
           \o AnnexB(Tail(descs))

NalsOf(descs) == [i \in 1..Len(descs) |-> Nal(descs[i].hdr, descs[i].n)]

RECURSIVE SeqsUpTo(_, _)
SeqsUpTo(S, n) ==
    IF n = 0 THEN {<<>>}
    ELSE LET prev == SeqsUpTo(S, n - 1)
         IN prev \cup {Append(s, x) : s \in {t \in prev : Len(t) = n - 1}, x \in S}

\* header byte and start code: IDR 0x65 (NRI 3) behind 00 00 00 01, non-IDR
\* slice 0x21 (NRI 1) behind 00 00 01, type 23 with NRI 0 (0x17) behind
\* 00 00 00 01
NalKinds == {[hdr |-> 101, sc |-> 4], [hdr |-> 33, sc |-> 3], [hdr |-> 23, sc |-> 4]}

\* NAL lengths around the limits of packetize_nal: one byte, the largest
\* single packet, the smallest FU-A (2 fragments), two full fragments, and
\* three fragments
NalSizes == {1, MAX_RTP_PAYLOAD, MAX_RTP_PAYLOAD + 1,
             2 * (MAX_RTP_PAYLOAD - 2) + 1, 2 * (MAX_RTP_PAYLOAD - 2) + 2}

\* frame_time_ms values: 0, 33, 47721859 (the first whose timestamp wraps)
\* and u32::MAX
FrameTimes == {<< 0, 0, 0, 0 >>, << 0, 0, 0, 33 >>, << 2, 216, 45, 131 >>,
               << 255, 255, 255, 255 >>}

\* the ssrc drawn from the clock by RtpPacketizer::new
SSRC == << 18, 52, 86, 120 >>

\* ------------------------------------------------------------------------
\* State
\* ------------------------------------------------------------------------
VARIABLES
    packetizer,     \* RtpSender.packetizer: [ssrc, sequence, timestamp]
    call_au,        \* argument of the last packetize call (NAL descriptions)
    call_ms,        \* frame_time_ms of the last packetize call
    call_packets,   \* the packets the last packetize call returned
    call_frames,    \* what a fresh depacketizer returned for each of them
    prev_seq,       \* sequence number of the last packet emitted before the
                    \* last call (NoSeq: none yet)
    calls,          \* number of packetize calls so far
    teacher_pc,     \* run_teacher: "idle", "loop" or "stopped"
    teacher_running,\* the running flag run_teacher polls
    now_ms,         \* start_time.elapsed() in ms at the top of the iteration
    frame_count,    \* H264Encoder.frame_count
    since_keyframe, \* encode calls since the last one that returned a keyframe
    enc_script,     \* the encoder outputs of this run, when drawn beforehand
    wire,           \* datagrams on their way to the student's socket
    student_kind,   \* which loop receives: "run_student" or "run_receiver"
    student_pc,     \* the student loop: "idle", "loop" or "stopped"
    student_running,\* the running flag the student loop polls
    dep,            \* RtpReceiver.depacketizer
    waiting_for_keyframe, \* the loop's local of that name
    st_seq,         \* sequence number of the datagram the last iteration
                    \* handled (NoSeq: none)
    st_frame,       \* what receive_frame returned in the last iteration
    st_decode,      \* what the last iteration did with it: "none" (no frame),
                    \* "discarded", or the decoder's "ok", "empty", "error"
    accepted,       \* sequence numbers the depacketizer accepted, in order
    emitted         \* the access units the depacketizer emitted, in order: the
                    \* sequence number of the packet that completed each, and
                    \* what the loop did with it (as st_decode)
VARIABLES
    teacher_log,    \* what the last iteration of run_teacher logged: "none",
                    \* "capture error", "encode error" or "send error"
    start_result,   \* what the last start_teacher / start_student call
                    \* returned: "none" (no call yet), "ok" or "err"
    enc_au,         \* the NALs of the bitstream the last encode call returned
    enc_keyframe,   \* the is_keyframe the last encode call returned
    render_queue,   \* the bounded channel between run_receiver and the window:
                    \* the queued FrameBuffers, each named by the sequence
                    \* number of the packet that completed its access unit
    window_pc,      \* the window thread: "idle", "loop", "drain" (in the
                    \* try_recv loop of RedrawRequested) or "exited"
    viewer_pc,      \* the NativeViewer handle: "idle", "started", "joining"
                    \* (stop waits for the receiver thread), "stopped", "dropped"
    redraw_pending, \* the frames the last RedrawRequested took from the queue
    redraw_shown    \* the frame it handed to render_frame (NoSeq: none)
VARIABLES
    disc_now,       \* the monotonic clock of Instant::now, in seconds
    disc_up,        \* the nodes whose DiscoveryService exists (socket bound)
    peers,          \* DiscoveryService.peers of each node: id -> (PeerInfo,
                    \* last_seen)
    inbox,          \* the datagrams queued at the socket of each node
    next_announce,  \* when each node sends its next periodic Announce
    proc_dg,        \* the datagram the last process() of each node received
    proc_ret,       \* what that process() returned (NoPeer: None)
    proc_sent,      \* what that process() handed to socket.send_to: a
                    \* sequence of (destination address, datagram)
    got,            \* the PeerInfos the last getter call of each node returned
    heard           \* per node and peer id: when the node last processed an
                    \* Announce or Response of that peer, and its source IP

VARIABLES
    detect_args,    \* the two bitstreams handed to the keyframe detectors, as
                    \* NAL descriptions: << a, b >>
    detect_rets     \* what H264Encoder::is_keyframe and is_h264_keyframe
                    \* returned for a, for b and for a followed by b

VARIABLES
    cap_clock,      \* Instant::now, in ms
    cap_fps,        \* the fps ScreenCapture::new was given
    cap_last,       \* ScreenCapture.last_capture
    cap_ret,        \* what the last capture_frame call returned: "none" (no
                    \* call yet), "Some", "None" or "Err"
    cap_asked,      \* whether that call called capturer.frame()
    cap_times,      \* the instants (line 55) of the last two calls that
                    \* returned a frame, oldest first
    loop_pc,        \* the loop of run_teacher: "idle", "top" (about to take
                    \* frame_start), "capture", "work" or "sleep"
    loop_start      \* frame_start of the current iteration

VARIABLES
    life_running,   \* TEACHER_RUNNING and STUDENT_RUNNING
    life_calls,     \* per pipeline and caller: where its start command is,
                    \* "idle" or "checked" (the flag was read as false)
    life_threads,   \* per pipeline and spawned thread: "none", "init" (in
                    \* run_* before the loop), "loop" or "ended"
    life_ret        \* per pipeline: what the last start command returned and
                    \* what the last is_*_running returned

VARIABLES
    rendered        \* the frames the window thread handed to render_frame,
                    \* in that order

VARIABLES
    call_data,      \* h264_data of the last packetize call, as bytes
    call_outcome    \* how that call ended: "none" (no call yet),
                    \* "returned" or "panicked"

rtpVars == << packetizer, call_au, call_ms, call_packets, call_frames, prev_seq, calls >>

callVars == << call_au, call_ms, call_packets, call_frames, prev_seq, calls >>

teacherObs == << teacher_log, start_result, enc_au, enc_keyframe >>

teacherVars == << teacher_pc, teacher_running, now_ms, frame_count, since_keyframe, enc_script,
                 teacherObs >>

studentVars == << student_kind, student_pc, student_running, dep, waiting_for_keyframe,
                 st_seq, st_frame, st_decode, accepted, emitted >>

viewerVars == << render_queue, window_pc, viewer_pc, redraw_pending, redraw_shown >>

discVars == << disc_now, disc_up, peers, inbox, next_announce, proc_dg, proc_ret, proc_sent, got, heard >>

sessionVars == << rtpVars, teacherVars, wire, studentVars, viewerVars >>

detectVars == << detect_args, detect_rets >>

captureVars == << cap_clock, cap_fps, cap_last, cap_ret, cap_asked, cap_times, loop_pc, loop_start >>

lifeVars == << life_running, life_calls, life_threads, life_ret >>

renderVars == << rendered >>

byteVars == << call_data, call_outcome >>

auxVars == << detectVars, captureVars, lifeVars, renderVars, byteVars >>

vars == << sessionVars, discVars, auxVars >>

\* RtpPacketizer::new (rtp.rs:157-170)
RtpPacketizer_new == [ssrc |-> SSRC, sequence |-> 0, timestamp |-> U32Zero]

\* feeding packets in order to a depacketizer: the frames returned, one
\* entry per packet
RECURSIVE FeedAll(_, _)
FeedAll(d, packets) ==
    IF packets = <<>> THEN <<>>
    ELSE LET r == depacketize(d, Head(packets))
         IN << r.frame >> \o FeedAll(r.d, Tail(packets))

\* sequence number of the last packet of a non-empty packet list
LastSeqOf(packets) == RtpHeader_parse(packets[Len(packets)]).sequence

\* one packetize call; the returned packets are also fed, in order, to a
\* fresh depacketizer
Packetize(descs, ms) ==
    \E r \in {packetize(packetizer, AnnexB(descs), ms)} :
       /\ packetizer' = r.p
       /\ call_packets' = r.packets
       /\ call_frames' = FeedAll(RtpDepacketizer_new, r.packets)
       /\ prev_seq' = IF call_packets = <<>> THEN prev_seq ELSE LastSeqOf(call_packets)
       /\ call_au' = descs
       /\ call_ms' = ms
       /\ calls' = calls + 1
       /\ UNCHANGED << teacherVars, wire, studentVars, viewerVars, discVars, auxVars >>

\* no teacher and no student loop has been started
SessionIdle ==
    /\ teacher_pc = "idle"
    /\ teacher_running = FALSE
    /\ now_ms = 0
    /\ frame_count = 0
    /\ since_keyframe = 0
    /\ enc_script = <<>>
    /\ wire = <<>>
    /\ student_kind = "run_student"
    /\ student_pc = "idle"
    /\ student_running = FALSE
    /\ dep = RtpDepacketizer_new
    /\ waiting_for_keyframe = TRUE
    /\ st_seq = NoSeq
    /\ st_frame = NoFrame
    /\ st_decode = "none"
    /\ accepted = <<>>
    /\ emitted = <<>>
    /\ teacher_log = "none"
    /\ start_result = "none"
    /\ enc_au = <<>>
    /\ enc_keyframe = FALSE
    /\ render_queue = <<>>
    /\ window_pc = "idle"
    /\ viewer_pc = "idle"
    /\ redraw_pending = <<>>
    /\ redraw_shown = NoSeq

\* no detector call has been observed
NoDetect == [enc |-> <<>>, view |-> <<>>]

DetectIdle ==
    /\ detect_args = << <<>>, <<>> >>
    /\ detect_rets = NoDetect

\* no Instant has been taken
NoInstant == -1

\* no ScreenCapture has been created
CaptureIdle ==
    /\ cap_clock = 0
    /\ cap_fps = 0
    /\ cap_last = NoInstant
    /\ cap_ret = "none"
    /\ cap_asked = FALSE
    /\ cap_times = << >>
    /\ loop_pc = "idle"
    /\ loop_start = NoInstant

Pipeline == {"teacher", "student"}

\* the commands that can be in progress at the same time, per pipeline
Caller == {1, 2}

\* the threads a pipeline spawns, in the order of their spawning
MaxThreads == 2

ThreadId == 1..MaxThreads

\* no start command has been called
LifeIdle ==
    /\ life_running = [p \in Pipeline |-> FALSE]
    /\ life_calls = [p \in Pipeline |-> [c \in Caller |-> "idle"]]
    /\ life_threads = [p \in Pipeline |-> [t \in ThreadId |-> "none"]]
    /\ life_ret = [p \in Pipeline |-> [start |-> "none", is_running |-> "none"]]

\* the window has rendered nothing
RenderIdle == rendered = << >>

\* packetize has not been called on raw bytes
BytesIdle == call_data = << >> /\ call_outcome = "none"

AuxIdle == DetectIdle /\ CaptureIdle /\ LifeIdle /\ RenderIdle /\ BytesIdle

\* no packetize call has been observed
CallsIdle ==
    /\ call_au = <<>>
    /\ call_ms = U32Zero
    /\ call_packets = <<>>
    /\ call_frames = <<>>
    /\ prev_seq = NoSeq
    /\ calls = 0

\* ------------------------------------------------------------------------
\* The discovery protocol: nodes, PeerInfo, datagrams
\* ------------------------------------------------------------------------
DISCOVERY_MAGIC == "SCRSHARE"

\* DISCOVERY_MAGIC.len()
MagicLen == 8

\* seconds
ANNOUNCE_INTERVAL == 2

PEER_TIMEOUT == 10

\* a teacher node A and a student node B, and the address of some other host
Node == {"A", "B"}

NodeIp == [n \in Node |-> IF n = "A" THEN "10.0.0.1" ELSE "10.0.0.2"]

OtherIp == "10.0.0.9"

\* the address broadcast_message sends to
BroadcastIp == "255.255.255.255"

\* DiscoveryService.local_info: the id generate_id made, the role, the ip
\* get_local_ip found (its fallback here) and the stream port; name and
\* version travel with them unchanged
local_info ==
    [n \in Node |-> [id |-> IF n = "A" THEN "a" ELSE "b",
                     role |-> IF n = "A" THEN "Teacher" ELSE "Student",
                     ip |-> "0.0.0.0",
                     stream_port |-> 5000]]

\* Option::None of a PeerInfo
NoPeer == [id |-> "", role |-> "", ip |-> "", stream_port |-> 0]

\* no datagram: recv_from timed out
NoDatagram == [size |-> 0, magic |-> "", kind |-> "", peer |-> NoPeer, src |-> ""]

\* the datagram of broadcast_message and send_to: the magic, then the JSON
\* of the message; src is the address recv_from reports for it
packet(kind, peer, src) ==
    [size |-> MagicLen + 2, magic |-> DISCOVERY_MAGIC, kind |-> kind, peer |-> peer, src |-> src]

\* no timer is set for periodic announcements
NoTimer == -1

\* no DiscoveryService has been created
DiscoveryIdle ==
    /\ disc_now = 0
    /\ disc_up = {}
    /\ peers = [n \in Node |-> << >>]
    /\ inbox = [n \in Node |-> << >>]
    /\ next_announce = [n \in Node |-> NoTimer]
    /\ proc_dg = [n \in Node |-> NoDatagram]
    /\ proc_ret = [n \in Node |-> NoPeer]
    /\ proc_sent = [n \in Node |-> << >>]
    /\ got = [n \in Node |-> {}]
    /\ heard = [n \in Node |-> << >>]

\* ------------------------------------------------------------------------
\* SpecRtp: a session of packetize calls on one RtpPacketizer
\* ------------------------------------------------------------------------
MaxCalls == 3

\* a packetizer that has already emitted 0, or 65533, packets
StartSequences == {0, 65533}

\* the access units of a session, and an input without any NAL
SessionAus ==
    { << >>,
      << [hdr |-> 65, n |-> 1, sc |-> 3] >>,
      << [hdr |-> 103, n |-> 9, sc |-> 4], [hdr |-> 101, n |-> MAX_RTP_PAYLOAD + 1, sc |-> 4] >>,
      << [hdr |-> 65, n |-> 3000, sc |-> 4] >>,
      << [hdr |-> 1, n |-> MAX_RTP_PAYLOAD + 1, sc |-> 3], [hdr |-> 55, n |-> MAX_RTP_PAYLOAD, sc |-> 3] >> }

InitRtp ==
    /\ AuxIdle
    /\ DiscoveryIdle
    /\ packetizer \in {[RtpPacketizer_new EXCEPT !.sequence = s] : s \in StartSequences}
    /\ CallsIdle
    /\ SessionIdle

NextRtp ==
    \E descs \in SessionAus, ms \in FrameTimes :
        calls < MaxCalls /\ Packetize(descs, ms)

SpecRtp == InitRtp /\ [][NextRtp]_vars

\* ------------------------------------------------------------------------
\* SpecRoundTrip: packetize of one access unit, fed to a fresh depacketizer
\* ------------------------------------------------------------------------
MaxNals == 2

NalDescs == {[hdr |-> k.hdr, n |-> n, sc |-> k.sc] : k \in NalKinds, n \in NalSizes}

AuDescs == SeqsUpTo(NalDescs, MaxNals) \ {<<>>}

\* the input is drawn first (calls = 0), then packetized (calls = 1)
InitRoundTrip ==
    /\ AuxIdle
    /\ DiscoveryIdle
    /\ packetizer = RtpPacketizer_new
    /\ call_au \in AuDescs
    /\ call_ms \in {<< 0, 0, 0, 0 >>, << 0, 0, 0, 33 >>}
    /\ call_packets = <<>>
    /\ call_frames = <<>>
    /\ prev_seq = NoSeq
    /\ calls = 0
    /\ SessionIdle

NextRoundTrip == calls = 0 /\ Packetize(call_au, call_ms)

SpecRoundTrip == InitRoundTrip /\ [][NextRoundTrip]_vars

\* ------------------------------------------------------------------------
\* SpecFragment: packetize of one NAL that needs fragmenting, for every
\* value of its header byte, fed to a fresh depacketizer
\* ------------------------------------------------------------------------
MaxFragments == 3

\* the shortest NAL that is fragmented (2 fragments), and the shortest of
\* 3 .. MaxFragments fragments
FragmentSizes ==
    {MAX_RTP_PAYLOAD + 1} \cup {(MAX_RTP_PAYLOAD - 2) * (f - 1) + 2 : f \in 3..MaxFragments}

FragmentAus == { << [hdr |-> h, n |-> n, sc |-> 4] >> : h \in 0..255, n \in FragmentSizes }

InitFragment ==
    /\ AuxIdle
    /\ DiscoveryIdle
    /\ packetizer = RtpPacketizer_new
    /\ call_au \in FragmentAus
    /\ call_ms = << 0, 0, 0, 33 >>
    /\ call_packets = <<>>
    /\ call_frames = <<>>
    /\ prev_seq = NoSeq
    /\ calls = 0
    /\ SessionIdle

NextFragment == calls = 0 /\ Packetize(call_au, call_ms)

SpecFragment == InitFragment /\ [][NextFragment]_vars

\* ------------------------------------------------------------------------
\* SpecPadding: packetize of an access unit with zero bytes of padding in
\* front of start codes
\* ------------------------------------------------------------------------
MaxPadding == 2

MaxPaddedNals == 2

PaddedNals ==
    { [hdr |-> h, n |-> n, sc |-> sc] :
        h \in {103, 101, 65}, n \in {1, 2, 5}, sc \in 3..(4 + MaxPadding) }

PaddedAus == SeqsUpTo(PaddedNals, MaxPaddedNals) \ {<<>>}

InitPadding ==
    /\ AuxIdle
    /\ DiscoveryIdle
    /\ packetizer = RtpPacketizer_new
    /\ call_au \in PaddedAus
    /\ call_ms = << 0, 0, 0, 33 >>
    /\ call_packets = <<>>
    /\ call_frames = <<>>
    /\ prev_seq = NoSeq
    /\ calls = 0
    /\ SessionIdle

NextPadding == calls = 0 /\ Packetize(call_au, call_ms)

SpecPadding == InitPadding /\ [][NextPadding]_vars

\* ------------------------------------------------------------------------
\* The teacher: start_teacher, stop_teacher and the loop of run_teacher
\* ------------------------------------------------------------------------
\* StreamConfig.fps, at its default
DefaultFps == 15

\* frame_interval of run_teacher, in ms
frame_interval(fps) == 1000 \div fps

\* a u32 below 2^31 as its four bytes
U32OfNat(n) == << (n \div 16777216) % 256, (n \div 65536) % 256, (n \div 256) % 256, n % 256 >>

\* the scan shared by H264Encoder::is_keyframe and is_h264_keyframe: a
\* start code at some i below limit, followed by a NAL header of type 5 or 7
KeyframeScan(data, limit) ==
    \E i \in 0..(limit - 1) :
        /\ At(data, i) = 0
        /\ At(data, i + 1) = 0
        /\ LET offset == IF At(data, i + 2) = 1 THEN i + 3
                         ELSE IF At(data, i + 2) = 0 /\ i + 3 < Len(data) /\ At(data, i + 3) = 1
                              THEN i + 4 ELSE -1
           IN /\ offset # -1
              /\ offset < Len(data)
              /\ (At(data, offset) % 32) \in {5, 7}

saturating_sub(a, b) == IF a > b THEN a - b ELSE 0

\* H264Encoder::is_keyframe
is_keyframe(data) == KeyframeScan(data, saturating_sub(Len(data), 5))

\* H264Encoder::encode on the bitstream raw that the openh264 encoder
\* returned: the bitstream and is_keyframe
H264Encoder_encode(raw) ==
    IF raw = <<>> THEN [data |-> <<>>, is_keyframe |-> FALSE]
    ELSE [data |-> raw, is_keyframe |-> is_keyframe(raw)]

\* start_teacher when the flag is clear: it sets the flag, spawns the thread
\* of run_teacher and returns Ok(()). init_ok: whether run_teacher then
\* builds its capture, encoder and sender; when one of them fails the thread
\* logs "Teacher error" and ends, and the flag stays set
StartTeacher(init_ok) ==
    /\ teacher_pc = "idle"
    /\ ~teacher_running
    /\ teacher_running' = TRUE
    /\ start_result' = "ok"
    /\ teacher_pc' = IF init_ok THEN "loop" ELSE "failed"
    /\ teacher_log' = IF init_ok THEN "none" ELSE "Teacher error"
    /\ packetizer' = RtpPacketizer_new
    /\ frame_count' = 0
    /\ now_ms' = 0
    /\ UNCHANGED << callVars, since_keyframe, enc_script, enc_au, enc_keyframe, wire,
                    studentVars, viewerVars, discVars, auxVars >>

\* start_teacher when the flag is set: Err("Already broadcasting")
StartTeacherRefused ==
    /\ teacher_running
    /\ start_result # "err"
    /\ start_result' = "err"
    /\ UNCHANGED << rtpVars, teacher_pc, teacher_running, now_ms, frame_count, since_keyframe,
                    enc_script, teacher_log, enc_au, enc_keyframe, wire, studentVars,
                    viewerVars, discVars, auxVars >>

\* stop_teacher
StopTeacher ==
    /\ teacher_running
    /\ teacher_running' = FALSE
    /\ UNCHANGED << rtpVars, teacher_pc, now_ms, frame_count, since_keyframe, enc_script,
                    teacherObs, wire, studentVars, viewerVars, discVars, auxVars >>

\* the loop of run_teacher finds the flag cleared and returns
TeacherExit ==
    /\ teacher_pc = "loop"
    /\ ~teacher_running
    /\ teacher_pc' = "stopped"
    /\ UNCHANGED << rtpVars, teacher_running, now_ms, frame_count, since_keyframe, enc_script,
                    teacherObs, wire, studentVars, viewerVars, discVars, auxVars >>

\* the student's socket is bound: datagrams sent to its port are queued
StudentBound == student_pc \in {"loop", "recv"}

\* every send_to of a send_frame call succeeds
SendOk == [err |-> FALSE, n |-> 0]

\* one iteration of the loop of run_teacher. cap is what capture_frame
\* returned ("frame", "none" or "error"); enc is what the openh264 encoder
\* did with the frame: enc.err, or the access unit enc.au (<<>>: no bytes);
\* send tells whether a send_to of send_frame failed (send.err) and how many
\* packets of the frame send_to had accepted before (send.n).
\* The datagrams of send_frame reach the wire when a student socket is bound.
\* Every error is logged and the loop goes on to its next iteration.
TeacherIteration(cap, enc, send) ==
    /\ teacher_pc = "loop"
    /\ teacher_running
    /\ now_ms' = now_ms + frame_interval(DefaultFps)
    /\ IF cap = "frame" /\ ~enc.err
       THEN \E e \in {H264Encoder_encode(AnnexB(enc.au))} :
              /\ frame_count' = frame_count + 1
              /\ since_keyframe' = IF e.is_keyframe THEN 0 ELSE since_keyframe + 1
              /\ enc_au' = enc.au
              /\ enc_keyframe' = e.is_keyframe
              /\ IF e.data = <<>>
                 THEN /\ teacher_log' = "none"
                      /\ UNCHANGED << packetizer, wire >>
                 ELSE \E r \in {packetize(packetizer, e.data, U32OfNat(now_ms))} :
                      \E sent \in {IF ~send.err THEN r.packets
                                   ELSE SubSeq(r.packets, 1, Min({send.n, Len(r.packets) - 1}))} :
                        /\ packetizer' = r.p
                        /\ wire' = IF StudentBound THEN wire \o sent ELSE wire
                        /\ teacher_log' = IF send.err THEN "send error" ELSE "none"
       ELSE /\ teacher_log' = IF cap = "error" THEN "capture error"
                              ELSE IF cap = "frame" THEN "encode error" ELSE "none"
            /\ UNCHANGED << frame_count, since_keyframe, enc_au, enc_keyframe, packetizer, wire >>
    /\ UNCHANGED << callVars, teacher_pc, teacher_running, enc_script, start_result,
                    studentVars, viewerVars, discVars, auxVars >>

\* ------------------------------------------------------------------------
\* SpecTeacher: a teacher session without students
\* ------------------------------------------------------------------------
MaxIterations == 32

\* iterations that send no access unit (nothing captured, encoder error,
\* no bytes encoded)
MaxIdle == 2

\* a keyframe access unit (SPS, PPS, IDR slice) and a delta access unit
\* (three non-IDR slices)
KeyAu == << [hdr |-> 103, n |-> 9, sc |-> 4], [hdr |-> 104, n |-> 4, sc |-> 4],
           [hdr |-> 101, n |-> 20, sc |-> 4] >>

DeltaAu == << [hdr |-> 65, n |-> 12, sc |-> 4], [hdr |-> 65, n |-> 11, sc |-> 4],
             [hdr |-> 65, n |-> 10, sc |-> 4] >>

\* what the encoder can return for a frame: an error, no bytes, a keyframe
\* or a delta frame; the first output of an encoder is a keyframe
EncoderOutputs(count) ==
    IF count = 0 THEN {[err |-> FALSE, au |-> KeyAu]}
    ELSE {[err |-> TRUE, au |-> <<>>], [err |-> FALSE, au |-> <<>>],
          [err |-> FALSE, au |-> KeyAu], [err |-> FALSE, au |-> DeltaAu]}

InitTeacher ==
    /\ AuxIdle
    /\ DiscoveryIdle
    /\ packetizer = RtpPacketizer_new
    /\ CallsIdle
    /\ SessionIdle

\* iterations of the loop so far, and access units sent so far (each is
\* three single-NAL packets)
IterationsDone == now_ms \div frame_interval(DefaultFps)

FramesSent == packetizer.sequence \div Len(KeyAu)

TeacherStep ==
    \E cap \in {"frame", "none", "error"}, enc \in EncoderOutputs(frame_count) :
        /\ IterationsDone < MaxIterations
        /\ (cap # "frame" \/ enc.err \/ enc.au = <<>>) => IterationsDone - FramesSent < MaxIdle
        /\ \E send \in {SendOk, [err |-> TRUE, n |-> 0]} : TeacherIteration(cap, enc, send)

TeacherStart == \E init_ok \in BOOLEAN : StartTeacher(init_ok)

NextTeacher ==
    TeacherStart \/ StartTeacherRefused \/ StopTeacher \/ TeacherExit \/ TeacherStep

SpecTeacher == InitTeacher /\ [][NextTeacher]_vars

\* ------------------------------------------------------------------------
\* The student: RtpReceiver::receive_frame and the loops of run_student and
\* run_receiver
\* ------------------------------------------------------------------------
\* is_h264_keyframe of the native viewer
is_h264_keyframe(data) == KeyframeScan(data, saturating_sub(Len(data), 4))

\* the keyframe test of run_student: some window of five bytes starts with
\* 00 00 00 01 and a header of type 5, or with 00 00 01 and a header of type 5
windows5_is_keyframe(h264_frame) ==
    \E i \in 0..(Len(h264_frame) - 5) :
        \/ /\ At(h264_frame, i) = 0
           /\ At(h264_frame, i + 1) = 0
           /\ At(h264_frame, i + 2) = 0
           /\ At(h264_frame, i + 3) = 1
           /\ At(h264_frame, i + 4) % 32 = 5
        \/ /\ At(h264_frame, i) = 0
           /\ At(h264_frame, i + 1) = 0
           /\ At(h264_frame, i + 2) = 1
           /\ At(h264_frame, i + 3) % 32 = 5

\* is_keyframe as each loop computes it
LoopIsKeyframe(kind, h264_frame) ==
    IF kind = "run_student" THEN windows5_is_keyframe(h264_frame)
    ELSE is_h264_keyframe(h264_frame)

WaitingAfterDecodeNever(outcome) == FALSE

\* waiting_for_keyframe after decoder.decode returned outcome
WaitingAfterDecode(outcome) == outcome = "error"

\* RtpReceiver::receive_frame on a datagram the socket returned
receive_frame(d, datagram) ==
    IF Len(datagram) < RTP_HEADER_SIZE THEN [d |-> d, frame |-> NoFrame]
    ELSE depacketize(d, datagram)

\* the datagram passes the checks in front of the sequence check of
\* depacketize (rtp.rs:332-341): it parses, its payload type is 96 and its
\* payload is not empty
PassesChecks(datagram) ==
    /\ RtpHeader_parse(datagram).ok
    /\ RtpHeader_parse(datagram).payload_type = RTP_PAYLOAD_TYPE_H264
    /\ Len(datagram) > RTP_HEADER_SIZE

\* capacity of the channel of NativeViewer::start
RenderCapacity == 2

\* every Sender of the render channel has been dropped: the one run_receiver
\* owns and the one the NativeViewer handle keeps in frame_tx
Disconnected == viewer_pc = "dropped" /\ student_pc \notin {"loop", "recv"}

try_sendUnbounded(queue, msg) ==
    IF window_pc \in {"loop", "drain"} THEN Append(queue, msg) ELSE queue

\* Sender::try_send on the render channel: the message is queued when there
\* is room; on a full channel, or one whose Receiver is gone, the call fails
\* and run_receiver drops the message with the error
try_send(queue, msg) ==
    IF window_pc \in {"loop", "drain"} /\ Len(queue) < RenderCapacity THEN Append(queue, msg)
    ELSE queue

socket_no_read_timeout == [some |-> FALSE, ms |-> 0]

\* the read timeout RtpReceiver::new sets on its socket
socket_read_timeout == [some |-> TRUE, ms |-> 100]

\* start_student when the flag is clear: it sets the flag, spawns the thread
\* of run_student and returns Ok(()). init_ok: whether run_student then
\* builds its receiver and decoder; when one of them fails the thread logs
\* "Student error" and ends, and the flag stays set
StartStudent(init_ok) ==
    /\ student_pc = "idle"
    /\ viewer_pc = "idle"
    /\ ~student_running
    /\ student_running' = TRUE
    /\ start_result' = "ok"
    /\ student_kind' = "run_student"
    /\ student_pc' = IF init_ok THEN "loop" ELSE "failed"
    /\ dep' = RtpDepacketizer_new
    /\ waiting_for_keyframe' = TRUE
    /\ UNCHANGED << rtpVars, teacher_pc, teacher_running, now_ms, frame_count, since_keyframe,
                    enc_script, teacher_log, enc_au, enc_keyframe, wire, st_seq, st_frame,
                    st_decode, accepted, emitted, viewerVars, discVars, auxVars >>

\* NativeViewer::start when the flag is clear: it sets the flag, creates the
\* render channel and spawns the threads of run_receiver and run_window.
\* init_ok: whether run_receiver builds its receiver and decoder
ViewerStart(init_ok) ==
    /\ student_pc = "idle"
    /\ viewer_pc = "idle"
    /\ ~student_running
    /\ student_running' = TRUE
    /\ viewer_pc' = "started"
    /\ render_queue' = <<>>
    /\ window_pc' = "loop"
    /\ student_kind' = "run_receiver"
    /\ student_pc' = IF init_ok THEN "loop" ELSE "failed"
    /\ dep' = RtpDepacketizer_new
    /\ waiting_for_keyframe' = TRUE
    /\ UNCHANGED << rtpVars, teacherVars, wire, st_seq, st_frame, st_decode, accepted,
                    emitted, redraw_pending, redraw_shown, discVars, auxVars >>

\* the student loop, its flag set, calls receive_frame on a socket without
\* a datagram: recv_from blocks
StudentBlock ==
    /\ student_pc = "loop"
    /\ student_running
    /\ wire = <<>>
    /\ student_pc' = "recv"
    /\ UNCHANGED << rtpVars, teacherVars, wire, student_kind, student_running, dep,
                    waiting_for_keyframe, st_seq, st_frame, st_decode, accepted, emitted,
                    viewerVars, discVars, auxVars >>

\* one iteration of the student loop in which recv_from returns the next
\* datagram; outcome is what the openh264 decoder does with an access unit
\* it is given ("ok": a picture, "empty": no picture, "error"). run_receiver
\* hands a picture to the render channel
StudentReceive(outcome) ==
    /\ \/ student_pc = "loop" /\ student_running
       \/ student_pc = "recv"
    /\ wire # <<>>
    /\ \E r \in {receive_frame(dep, Head(wire))}, header \in {RtpHeader_parse(Head(wire))} :
       \E decode \in {IF r.frame = NoFrame THEN "none"
                      ELSE IF waiting_for_keyframe /\ ~LoopIsKeyframe(student_kind, r.frame)
                           THEN "discarded" ELSE outcome} :
          /\ wire' = Tail(wire)
          /\ dep' = r.d
          /\ st_seq' = IF header.ok THEN header.sequence ELSE NoSeq
          /\ st_frame' = r.frame
          /\ st_decode' = decode
          /\ accepted' = IF PassesChecks(Head(wire)) THEN Append(accepted, header.sequence)
                         ELSE accepted
          /\ emitted' = IF r.frame # NoFrame
                        THEN Append(emitted, [seq |-> header.sequence, decode |-> decode])
                        ELSE emitted
          /\ waiting_for_keyframe' = IF decode \in {"none", "discarded"} THEN waiting_for_keyframe
                                     ELSE WaitingAfterDecode(decode)
          /\ render_queue' = IF student_kind = "run_receiver" /\ decode = "ok"
                             THEN try_send(render_queue, header.sequence)
                             ELSE render_queue
    /\ student_pc' = "loop"
    /\ UNCHANGED << rtpVars, teacherVars, student_kind, student_running, window_pc,
                    viewer_pc, redraw_pending, redraw_shown, discVars, auxVars >>

\* recv_from returns without a datagram when the read timeout expires:
\* receive_frame returns None and the iteration ends
StudentTimeout ==
    /\ student_pc = "recv"
    /\ wire = <<>>
    /\ socket_read_timeout.some
    /\ student_pc' = "loop"
    /\ st_seq' = NoSeq
    /\ st_frame' = NoFrame
    /\ st_decode' = "none"
    /\ UNCHANGED << rtpVars, teacherVars, wire, student_kind, student_running,
                    dep, waiting_for_keyframe, accepted, emitted, viewerVars, discVars, auxVars >>

\* stop_student clears STUDENT_RUNNING, the flag run_student polls
StopStudent ==
    /\ student_kind = "run_student"
    /\ StudentBound
    /\ student_running
    /\ student_running' = FALSE
    /\ UNCHANGED << rtpVars, teacherVars, wire, student_kind, student_pc, dep,
                    waiting_for_keyframe, st_seq, st_frame, st_decode, accepted, emitted,
                    viewerVars, discVars, auxVars >>

\* the loop finds the flag cleared and returns; the socket is closed
StudentExit ==
    /\ student_pc = "loop"
    /\ ~student_running
    /\ student_pc' = "stopped"
    /\ wire' = <<>>
    /\ UNCHANGED << rtpVars, teacherVars, student_kind, student_running, dep,
                    waiting_for_keyframe, st_seq, st_frame, st_decode, accepted, emitted,
                    viewerVars, discVars, auxVars >>

\* NativeViewer::stop clears the flag and waits for the receiver thread
ViewerStop ==
    /\ viewer_pc = "started"
    /\ student_running' = FALSE
    /\ viewer_pc' = "joining"
    /\ UNCHANGED << rtpVars, teacherVars, wire, student_kind, student_pc, dep,
                    waiting_for_keyframe, st_seq, st_frame, st_decode, accepted, emitted,
                    render_queue, window_pc, redraw_pending, redraw_shown, discVars, auxVars >>

\* the join of NativeViewer::stop returns once the receiver thread has ended
ViewerStopReturn ==
    /\ viewer_pc = "joining"
    /\ student_pc \in {"stopped", "failed"}
    /\ viewer_pc' = "stopped"
    /\ UNCHANGED << rtpVars, teacherVars, wire, studentVars, render_queue, window_pc,
                    redraw_pending, redraw_shown, discVars, auxVars >>

\* the stopped NativeViewer is dropped, and its frame_tx with it
ViewerDrop ==
    /\ viewer_pc = "stopped"
    /\ viewer_pc' = "dropped"
    /\ UNCHANGED << rtpVars, teacherVars, wire, studentVars, render_queue, window_pc,
                    redraw_pending, redraw_shown, discVars, auxVars >>

WindowRedrawOldest ==
    /\ window_pc = "loop"
    /\ redraw_pending' = render_queue
    /\ render_queue' = <<>>
    /\ window_pc' = IF Disconnected THEN "exited" ELSE "loop"
    /\ redraw_shown' = IF Disconnected \/ render_queue = <<>> THEN NoSeq ELSE render_queue[1]
    /\ UNCHANGED << rtpVars, teacherVars, wire, studentVars, viewer_pc, discVars, auxVars >>

\* WindowEvent::RedrawRequested: try_recv until the channel is empty, then
\* render_frame on the last frame received, if any; when the channel is
\* empty and disconnected the handler leaves the event loop instead
WindowRedraw ==
    /\ window_pc = "loop"
    /\ redraw_pending' = render_queue
    /\ render_queue' = <<>>
    /\ IF Disconnected
       THEN /\ window_pc' = "exited"
            /\ redraw_shown' = NoSeq
       ELSE /\ window_pc' = "loop"
            /\ redraw_shown' = IF render_queue = <<>> THEN NoSeq
                               ELSE render_queue[Len(render_queue)]
    /\ UNCHANGED << rtpVars, teacherVars, wire, studentVars, viewer_pc, discVars, auxVars >>

\* WindowEvent::CloseRequested clears the flag and leaves the event loop;
\* run_window returns and the Receiver of the channel is dropped
WindowClose ==
    /\ window_pc = "loop"
    /\ student_running' = FALSE
    /\ window_pc' = "exited"
    /\ render_queue' = <<>>
    /\ UNCHANGED << rtpVars, teacherVars, wire, student_kind, student_pc, dep,
                    waiting_for_keyframe, st_seq, st_frame, st_decode, accepted, emitted,
                    viewer_pc, redraw_pending, redraw_shown, discVars, auxVars >>

\* about_to_wait finds the flag cleared and leaves the event loop
WindowAboutToWait ==
    /\ window_pc = "loop"
    /\ ~student_running
    /\ window_pc' = "exited"
    /\ render_queue' = <<>>
    /\ UNCHANGED << rtpVars, teacherVars, wire, studentVars, viewer_pc, redraw_pending,
                    redraw_shown, discVars, auxVars >>

\* the network loses the next datagram
NetLose ==
    /\ wire # <<>>
    /\ wire' = Tail(wire)
    /\ UNCHANGED << rtpVars, teacherVars, studentVars, viewerVars, discVars, auxVars >>

\* the network lets a datagram overtake the one before it
NetReorder ==
    /\ Len(wire) >= 2
    /\ wire' = << wire[2], wire[1] >> \o SubSeq(wire, 3, Len(wire))
    /\ UNCHANGED << rtpVars, teacherVars, studentVars, viewerVars, discVars, auxVars >>

\* ------------------------------------------------------------------------
\* SpecPipe: a teacher, a lossy and reordering network, a student
\* ------------------------------------------------------------------------
MaxPipeFrames == 2

\* a keyframe access unit whose IDR slice takes two FU-A packets, a delta
\* access unit of one 3000-byte slice (three FU-A packets), and a delta
\* access unit of one small slice
PipeKeyAu == << [hdr |-> 103, n |-> 9, sc |-> 4], [hdr |-> 101, n |-> MAX_RTP_PAYLOAD + 1, sc |-> 4] >>

PipeBigAu == << [hdr |-> 65, n |-> 3000, sc |-> 4] >>

PipeSmallAu == << [hdr |-> 65, n |-> 5, sc |-> 4] >>

\* packets a NAL of n bytes is sent in: one, or the n - 1 bytes behind the
\* header in fragments of at most MAX_RTP_PAYLOAD - 2
PacketsOfNal(n) ==
    IF n <= MAX_RTP_PAYLOAD THEN 1
    ELSE ((n - 1) + (MAX_RTP_PAYLOAD - 3)) \div (MAX_RTP_PAYLOAD - 2)

RECURSIVE PacketsOfAu(_)
PacketsOfAu(au) ==
    IF au = <<>> THEN 0 ELSE PacketsOfNal(Head(au).n) + PacketsOfAu(Tail(au))

RECURSIVE PacketsOfScript(_)
PacketsOfScript(script) ==
    IF script = <<>> THEN 0 ELSE PacketsOfAu(Head(script)) + PacketsOfScript(Tail(script))

\* datagrams sent in a run
MaxPipePackets == 6

PipeAus == {PipeKeyAu, PipeBigAu, PipeSmallAu}

\* the encoder outputs of a run: the student may follow a stream from any
\* of its frames on
PipeScripts ==
    {script \in SeqsUpTo(PipeAus, MaxPipeFrames) \ {<<>>} :
        PacketsOfScript(script) <= MaxPipePackets}

InitPipe ==
    /\ AuxIdle
    /\ DiscoveryIdle
    /\ packetizer = RtpPacketizer_new
    /\ CallsIdle
    /\ teacher_pc = "loop"
    /\ teacher_running = TRUE
    /\ now_ms = 0
    /\ frame_count = 0
    /\ since_keyframe = 0
    /\ enc_script \in PipeScripts
    /\ wire = <<>>
    /\ student_kind \in {"run_student", "run_receiver"}
    /\ student_pc = "loop"
    /\ student_running = TRUE
    /\ dep = RtpDepacketizer_new
    /\ waiting_for_keyframe = TRUE
    /\ st_seq = NoSeq
    /\ st_frame = NoFrame
    /\ st_decode = "none"
    /\ accepted = <<>>
    /\ emitted = <<>>
    /\ teacher_log = "none"
    /\ start_result = "ok"
    /\ enc_au = <<>>
    /\ enc_keyframe = FALSE
    /\ render_queue = <<>>
    /\ window_pc = IF student_kind = "run_receiver" THEN "loop" ELSE "idle"
    /\ viewer_pc = IF student_kind = "run_receiver" THEN "started" ELSE "idle"
    /\ redraw_pending = <<>>
    /\ redraw_shown = NoSeq

\* the teacher captures and encodes the next frame of the run
PipeTeacherStep ==
    /\ frame_count < Len(enc_script)
    /\ TeacherIteration("frame", [err |-> FALSE, au |-> enc_script[frame_count + 1]], SendOk)

PipeStudentStep == \E outcome \in {"ok", "empty", "error"} : StudentReceive(outcome)

NextPipe ==
    \/ PipeTeacherStep
    \/ NetLose
    \/ NetReorder
    \/ StudentBlock
    \/ PipeStudentStep
    \/ StudentTimeout
    \/ StopStudent
    \/ StudentExit

SpecPipe == InitPipe /\ [][NextPipe]_vars

\* ------------------------------------------------------------------------
\* SpecInject: a student whose socket holds datagrams of any sender: RTP
\* packets with and without sequence gaps and timestamp changes, payloads
\* of every kind of NAL type, and datagrams that are not RTP/H.264
\* ------------------------------------------------------------------------
MaxInject == 3

\* the sequence number in front of the first packet of a run
InjectBaseSeq == 65533

\* every data byte of a packet names the timestamp of the packet
Tag(tsidx) == 160 + tsidx

InjectTimestamp(tsidx) == << 0, 0, 0, tsidx >>

\* sequence number and timestamp of the datagrams that are not RTP/H.264
StraySeq == 9000

StrayTs == 9

\* the payload behind the RTP header, by kind: a slice (0x41), the S, middle
\* and E fragments of an IDR slice (indicator 0x7C), a STAP-A (0x78) of an
\* SPS and a PPS of two bytes each, payloads of type 0 (0x60) and 29 (0x7D),
\* and one CSRC entry followed by a slice
InjectPayload(kind, tsidx) ==
    CASE kind \in {"single", "single_m", "short", "version", "pt"} -> << 65, Tag(tsidx) >>
      [] kind = "fu_s" -> << 124, 133, Tag(tsidx) >>
      [] kind = "fu_m" -> << 124, 5, Tag(tsidx) >>
      [] kind = "fu_e" -> << 124, 69, Tag(tsidx) >>
      [] kind = "stap_a" -> << 120, 0, 2, 103, Tag(tsidx), 0, 2, 104, Tag(tsidx) >>
      [] kind = "type0" -> << 96, Tag(tsidx) >>
      [] kind = "type29" -> << 125, Tag(tsidx) >>
      [] kind = "csrc" -> << 1, 2, 3, 4, 65, Tag(tsidx) >>

\* one datagram: the header as a sender writes it, then the payload
InjectDatagram(kind, seq, tsidx) ==
    LET header == [RtpHeader_new(SSRC) EXCEPT
                      !.version = IF kind = "version" THEN 1 ELSE RTP_VERSION,
                      !.payload_type = IF kind = "pt" THEN 97 ELSE RTP_PAYLOAD_TYPE_H264,
                      !.csrc_count = IF kind = "csrc" THEN 1 ELSE 0,
                      !.marker = kind \notin {"single", "fu_s", "fu_m"},
                      !.sequence = seq,
                      !.timestamp = InjectTimestamp(tsidx)]
        bytes == RtpHeader_serialize(header) \o InjectPayload(kind, tsidx)
    IN IF kind = "short" THEN SubSeq(bytes, 1, RTP_HEADER_SIZE - 1) ELSE bytes

StrayKinds == {"short", "version", "pt"}

\* what a run draws for each datagram: its kind, whether its sequence
\* number skips two, and whether it begins a new timestamp
InjectChoices ==
    { [kind |-> "single", gap |-> g, newts |-> t] : g \in BOOLEAN, t \in BOOLEAN }
    \cup { c \in [kind : {"single_m", "fu_e"}, gap : BOOLEAN, newts : BOOLEAN] :
               ~(c.gap /\ c.newts) }
    \cup { [kind |-> "fu_s", gap |-> g, newts |-> FALSE] : g \in BOOLEAN }
    \cup { [kind |-> "fu_m", gap |-> FALSE, newts |-> FALSE] }
    \cup { [kind |-> k, gap |-> FALSE, newts |-> FALSE] :
             k \in {"stap_a", "type0", "type29", "csrc"} \cup StrayKinds }

\* the datagrams of a run, in order of arrival; a datagram that is not
\* RTP/H.264 carries a sequence number and a timestamp of its own
RECURSIVE InjectRun(_, _, _)
InjectRun(choices, seq, tsidx) ==
    IF choices = <<>> THEN <<>>
    ELSE LET c == Head(choices)
         IN IF c.kind \in StrayKinds
            THEN << InjectDatagram(c.kind, StraySeq, StrayTs) >>
                   \o InjectRun(Tail(choices), seq, tsidx)
            ELSE LET s == (seq + (IF c.gap THEN 3 ELSE 1)) % U16
                     t == IF c.newts THEN tsidx + 1 ELSE tsidx
                 IN << InjectDatagram(c.kind, s, t) >> \o InjectRun(Tail(choices), s, t)

InjectRuns == { InjectRun(cs, InjectBaseSeq, 1) : cs \in SeqsUpTo(InjectChoices, MaxInject) }

InitInject ==
    /\ AuxIdle
    /\ DiscoveryIdle
    /\ packetizer = RtpPacketizer_new
    /\ CallsIdle
    /\ teacher_pc = "idle"
    /\ teacher_running = FALSE
    /\ now_ms = 0
    /\ frame_count = 0
    /\ since_keyframe = 0
    /\ enc_script = <<>>
    /\ wire \in InjectRuns
    /\ student_kind = "run_student"
    /\ student_pc = "loop"
    /\ student_running = TRUE
    /\ dep = RtpDepacketizer_new
    /\ waiting_for_keyframe = TRUE
    /\ st_seq = NoSeq
    /\ st_frame = NoFrame
    /\ st_decode = "none"
    /\ accepted = <<>>
    /\ emitted = <<>>
    /\ teacher_log = "none"
    /\ start_result = "ok"
    /\ enc_au = <<>>
    /\ enc_keyframe = FALSE
    /\ render_queue = <<>>
    /\ window_pc = "idle"
    /\ viewer_pc = "idle"
    /\ redraw_pending = <<>>
    /\ redraw_shown = NoSeq

InjectStudentStep == StudentReceive("ok")

NextInject == InjectStudentStep \/ StudentBlock \/ StudentTimeout

SpecInject == InitInject /\ [][NextInject]_vars

\* ------------------------------------------------------------------------
\* SpecViewer: a teacher, a lossy network and a native viewer: the thread
\* of run_receiver, the render channel and the window thread
\* ------------------------------------------------------------------------
MaxViewFrames == 3

\* a keyframe access unit of one small IDR slice
ViewKeyAu == << [hdr |-> 101, n |-> 5, sc |-> 4] >>

ViewAus == {ViewKeyAu, PipeSmallAu}

ViewScripts == SeqsUpTo(ViewAus, MaxViewFrames) \ {<<>>}

\* the teacher broadcasts; no student and no viewer has been started
InitViewer ==
    /\ AuxIdle
    /\ DiscoveryIdle
    /\ packetizer = RtpPacketizer_new
    /\ CallsIdle
    /\ teacher_pc = "loop"
    /\ teacher_running = TRUE
    /\ now_ms = 0
    /\ frame_count = 0
    /\ since_keyframe = 0
    /\ enc_script \in ViewScripts
    /\ wire = <<>>
    /\ student_kind = "run_receiver"
    /\ student_pc = "idle"
    /\ student_running = FALSE
    /\ dep = RtpDepacketizer_new
    /\ waiting_for_keyframe = TRUE
    /\ st_seq = NoSeq
    /\ st_frame = NoFrame
    /\ st_decode = "none"
    /\ accepted = <<>>
    /\ emitted = <<>>
    /\ teacher_log = "none"
    /\ start_result = "ok"
    /\ enc_au = <<>>
    /\ enc_keyframe = FALSE
    /\ render_queue = <<>>
    /\ window_pc = "idle"
    /\ viewer_pc = "idle"
    /\ redraw_pending = <<>>
    /\ redraw_shown = NoSeq

ViewerStartStep == \E init_ok \in BOOLEAN : ViewerStart(init_ok)

NextViewer ==
    \/ PipeTeacherStep
    \/ NetLose
    \/ ViewerStartStep
    \/ StudentBlock
    \/ PipeStudentStep
    \/ StudentTimeout
    \/ StudentExit
    \/ ViewerStop
    \/ ViewerStopReturn
    \/ ViewerDrop
    \/ WindowRedraw
    \/ WindowClose
    \/ WindowAboutToWait

SpecViewer == InitViewer /\ [][NextViewer]_vars

\* ------------------------------------------------------------------------
\* SpecCancel: starting and stopping the teacher, the student and the
\* native viewer. The scheduler runs every thread: a teacher thread that
\* finds its flag cleared returns, the student thread takes its next step,
\* a recv_from that finds no datagram returns when the read timeout
\* expires, and a join returns once the joined thread has ended
\* ------------------------------------------------------------------------
MaxCancelFrames == 2

CancelScripts == SeqsUpTo(ViewAus, MaxCancelFrames) \ {<<>>}

\* nothing has been started
InitCancel ==
    /\ AuxIdle
    /\ DiscoveryIdle
    /\ packetizer = RtpPacketizer_new
    /\ CallsIdle
    /\ teacher_pc = "idle"
    /\ teacher_running = FALSE
    /\ now_ms = 0
    /\ frame_count = 0
    /\ since_keyframe = 0
    /\ enc_script \in CancelScripts
    /\ wire = <<>>
    /\ student_kind = "run_student"
    /\ student_pc = "idle"
    /\ student_running = FALSE
    /\ dep = RtpDepacketizer_new
    /\ waiting_for_keyframe = TRUE
    /\ st_seq = NoSeq
    /\ st_frame = NoFrame
    /\ st_decode = "none"
    /\ accepted = <<>>
    /\ emitted = <<>>
    /\ teacher_log = "none"
    /\ start_result = "none"
    /\ enc_au = <<>>
    /\ enc_keyframe = FALSE
    /\ render_queue = <<>>
    /\ window_pc = "idle"
    /\ viewer_pc = "idle"
    /\ redraw_pending = <<>>
    /\ redraw_shown = NoSeq

StudentStart == \E init_ok \in BOOLEAN : StartStudent(init_ok)

\* the steps of the thread of run_teacher
TeacherThread == PipeTeacherStep \/ TeacherExit

\* the steps of the thread of run_student or run_receiver
StudentThread == StudentBlock \/ PipeStudentStep \/ StudentTimeout \/ StudentExit

\* the steps of the window thread
WindowThread == WindowRedraw \/ WindowClose \/ WindowAboutToWait

NextCancel ==
    \/ TeacherStart
    \/ StopTeacher
    \/ TeacherThread
    \/ NetLose
    \/ StudentStart
    \/ StopStudent
    \/ ViewerStartStep
    \/ ViewerStop
    \/ ViewerStopReturn
    \/ StudentThread
    \/ WindowThread

SpecCancel ==
    /\ InitCancel
    /\ [][NextCancel]_vars
    /\ WF_vars(TeacherExit)
    /\ WF_vars(StudentThread)
    /\ WF_vars(ViewerStopReturn)

\* ------------------------------------------------------------------------
\* The discovery service
\* ------------------------------------------------------------------------
\* room of a socket's receive queue, in datagrams: what does not fit is lost
MaxInbox == 4

\* the datagram reaches the sockets of the nodes in to
Deliver(boxes, to, dg) ==
    [m \in Node |-> IF m \in to /\ Len(boxes[m]) < MaxInbox THEN Append(boxes[m], dg)
                    ELSE boxes[m]]

\* HashMap::insert
Insert(table, key, value) ==
    [k \in DOMAIN table \cup {key} |-> IF k = key THEN value ELSE table[k]]

KeepAdvertisedIp(peer, addr) == peer

\* peer.ip = addr.ip().to_string()
OverwriteIp(peer, addr) == [peer EXCEPT !.ip = addr]

IsSelfNever(n, peer) == FALSE

\* peer.id == self.local_info.id
IsSelf(n, peer) == peer.id = local_info[n].id

handle_messageRepliesToAll(n, table, hist, msg, addr, now) ==
    IF msg.kind \in {"Announce", "Response"}
    THEN LET peer == OverwriteIp(msg.peer, addr)
         IN IF IsSelf(n, peer)
            THEN [peers |-> table, heard |-> hist, ret |-> NoPeer, reply |-> NoDatagram,
                  reply_to |-> ""]
            ELSE [peers |-> Insert(table, peer.id, [info |-> peer, last_seen |-> now]),
                  heard |-> Insert(hist, peer.id, [at |-> now, src |-> addr]),
                  ret |-> IF peer.id \in DOMAIN table THEN NoPeer ELSE peer,
                  reply |-> NoDatagram, reply_to |-> ""]
    ELSE [peers |-> table, heard |-> hist, ret |-> NoPeer,
          reply |-> packet("Response", local_info[n], NodeIp[n]), reply_to |-> BroadcastIp]

\* handle_message of node n on a parsed message from addr: the peer table,
\* what it returns, and the datagram it sends back with send_to and where
\* to (hist is the record of what was processed)
handle_message(n, table, hist, msg, addr, now) ==
    IF msg.kind \in {"Announce", "Response"}
    THEN LET peer == OverwriteIp(msg.peer, addr)
         IN IF IsSelf(n, peer)
            THEN [peers |-> table, heard |-> hist, ret |-> NoPeer, reply |-> NoDatagram,
                  reply_to |-> ""]
            ELSE [peers |-> Insert(table, peer.id, [info |-> peer, last_seen |-> now]),
                  heard |-> Insert(hist, peer.id, [at |-> now, src |-> addr]),
                  ret |-> IF peer.id \in DOMAIN table THEN NoPeer ELSE peer,
                  reply |-> NoDatagram, reply_to |-> ""]
    ELSE [peers |-> table, heard |-> hist, ret |-> NoPeer,
          reply |-> packet("Response", local_info[n], NodeIp[n]), reply_to |-> addr]

\* the sockets a datagram sent to address to arrives at
Route(to) == IF to = BroadcastIp THEN disc_up ELSE {m \in disc_up : NodeIp[m] = to}

processKeepsMalformed(n, st, now) ==
    IF st.inbox[n] = << >>
    THEN [peers |-> st.peers, inbox |-> st.inbox, heard |-> st.heard,
          ret |-> NoPeer, dg |-> NoDatagram, sent |-> << >>]
    ELSE LET dg == Head(st.inbox[n])
             rest == [st.inbox EXCEPT ![n] = Tail(@)]
             h == handle_message(n, st.peers, st.heard, dg, dg.src, now)
         IN [peers |-> h.peers,
             inbox |-> IF h.reply = NoDatagram THEN rest
                       ELSE Deliver(rest, Route(h.reply_to), h.reply),
             heard |-> h.heard, ret |-> h.ret, dg |-> dg,
             sent |-> IF h.reply = NoDatagram THEN << >>
                      ELSE << [to |-> h.reply_to, dg |-> h.reply] >>]

\* DiscoveryService::process of node n: one recv_from, which times out on
\* an empty queue. st holds the peer table of n, the queues of all sockets
\* and the record of what n processed
process(n, st, now) ==
    IF st.inbox[n] = << >>
    THEN [peers |-> st.peers, inbox |-> st.inbox, heard |-> st.heard,
          ret |-> NoPeer, dg |-> NoDatagram, sent |-> << >>]
    ELSE LET dg == Head(st.inbox[n])
             rest == [st.inbox EXCEPT ![n] = Tail(@)]
         IN IF dg.size < MagicLen \/ dg.magic # DISCOVERY_MAGIC \/ dg.kind = "Unparsable"
            THEN [peers |-> st.peers, inbox |-> rest, heard |-> st.heard,
                  ret |-> NoPeer, dg |-> dg, sent |-> << >>]
            ELSE LET h == handle_message(n, st.peers, st.heard, dg, dg.src, now)
                 IN [peers |-> h.peers,
                     inbox |-> IF h.reply = NoDatagram THEN rest
                               ELSE Deliver(rest, Route(h.reply_to), h.reply),
                     heard |-> h.heard, ret |-> h.ret, dg |-> dg,
                     sent |-> IF h.reply = NoDatagram THEN << >>
                              ELSE << [to |-> h.reply_to, dg |-> h.reply] >>]

\* while let Ok(Some(_)) = service.process() {}
RECURSIVE process_loop(_, _, _)
process_loop(n, st, now) ==
    LET r == process(n, st, now)
    IN IF r.ret = NoPeer THEN r ELSE process_loop(n, r, now)

FreshAlways(now, last_seen) == TRUE

\* now.duration_since(*last_seen) < PEER_TIMEOUT
Fresh(now, last_seen) == now - last_seen < PEER_TIMEOUT

\* DiscoveryService::get_peers: the table after retain, and the list
get_peers(table, now) ==
    LET kept == {id \in DOMAIN table : Fresh(now, table[id].last_seen)}
    IN [peers |-> [id \in kept |-> table[id]], list |-> {table[id].info : id \in kept}]

\* the filter of get_teachers and of get_students
RoleFilter(kind, list) ==
    IF kind \in {"get_teachers", "cmd:get_teachers"} THEN {p \in list : p.role = "Teacher"}
    ELSE IF kind = "get_students" THEN {p \in list : p.role = "Student"}
    ELSE list

\* discovery_announce, DiscoveryService::announce: the broadcast reaches
\* every bound socket, the sender's own included
DiscAnnounce(n) ==
    /\ n \in disc_up
    /\ inbox' = Deliver(inbox, disc_up, packet("Announce", local_info[n], NodeIp[n]))
    /\ UNCHANGED << sessionVars, auxVars, disc_now, disc_up, peers, next_announce, proc_dg, proc_ret, proc_sent,
                    got, heard >>

\* discovery_query, DiscoveryService::query
DiscQuery(n) ==
    /\ n \in disc_up
    /\ inbox' = Deliver(inbox, disc_up, packet("Query", NoPeer, NodeIp[n]))
    /\ UNCHANGED << sessionVars, auxVars, disc_now, disc_up, peers, next_announce, proc_dg, proc_ret, proc_sent,
                    got, heard >>

\* a call of DiscoveryService::process
DiscProcess(n) ==
    /\ n \in disc_up
    /\ \E r \in {process(n, [peers |-> peers[n], inbox |-> inbox, heard |-> heard[n]], disc_now)} :
          /\ peers' = [peers EXCEPT ![n] = r.peers]
          /\ inbox' = r.inbox
          /\ heard' = [heard EXCEPT ![n] = r.heard]
          /\ proc_ret' = [proc_ret EXCEPT ![n] = r.ret]
          /\ proc_dg' = [proc_dg EXCEPT ![n] = r.dg]
          /\ proc_sent' = [proc_sent EXCEPT ![n] = r.sent]
    /\ UNCHANGED << sessionVars, auxVars, disc_now, disc_up, next_announce, got >>

\* a call of DiscoveryService::get_peers, get_teachers or get_students
DiscGet(n, kind) ==
    /\ n \in disc_up
    /\ \E g \in {get_peers(peers[n], disc_now)} :
          /\ peers' = [peers EXCEPT ![n] = g.peers]
          /\ got' = [got EXCEPT ![n] = RoleFilter(kind, g.list)]
    /\ UNCHANGED << sessionVars, auxVars, disc_now, disc_up, inbox, next_announce, proc_dg, proc_ret, proc_sent,
                    heard >>

\* the commands get_discovered_peers ("cmd:get_discovered_peers") and
\* get_teachers ("cmd:get_teachers"): process until it returns no new peer,
\* then the getter
DiscCommand(n, kind) ==
    /\ n \in disc_up
    /\ \E r \in {process_loop(n, [peers |-> peers[n], inbox |-> inbox, heard |-> heard[n]],
                              disc_now)} :
       \E g \in {get_peers(r.peers, disc_now)} :
          /\ peers' = [peers EXCEPT ![n] = g.peers]
          /\ inbox' = r.inbox
          /\ heard' = [heard EXCEPT ![n] = r.heard]
          /\ proc_ret' = [proc_ret EXCEPT ![n] = r.ret]
          /\ proc_dg' = [proc_dg EXCEPT ![n] = r.dg]
          /\ proc_sent' = [proc_sent EXCEPT ![n] = r.sent]
          /\ got' = [got EXCEPT ![n] = RoleFilter(kind, g.list)]
    /\ UNCHANGED << sessionVars, auxVars, disc_now, disc_up, next_announce >>

\* a datagram of some other sender arrives at the socket of n
EnvSend(n, dg, room) ==
    /\ n \in disc_up
    /\ Len(inbox[n]) < room
    /\ inbox' = [inbox EXCEPT ![n] = Append(@, dg)]
    /\ UNCHANGED << sessionVars, auxVars, disc_now, disc_up, peers, next_announce, proc_dg, proc_ret, proc_sent,
                    got, heard >>

\* dt seconds pass; a periodic announcement that is due is sent first
DiscTick(dt, max) ==
    /\ disc_now + dt <= max
    /\ \A n \in disc_up : next_announce[n] # disc_now
    /\ disc_now' = disc_now + dt
    /\ UNCHANGED << sessionVars, auxVars, disc_up, peers, inbox, next_announce, proc_dg, proc_ret, proc_sent,
                    got, heard >>

\* ------------------------------------------------------------------------
\* SpecDiscovery: the service of node A, its commands, and datagrams of
\* any kind from any source
\* ------------------------------------------------------------------------
MaxDiscTime == 15

DiscTickSeconds == 5

MaxEnvQueue == 2

\* what B, or anybody else, can send to A: B's announcement relayed from
\* another address, B's response, an announcement that carries A's own id,
\* a query, and datagrams process drops (too short, another magic, a body
\* that does not parse)
EnvDatagrams ==
    { packet("Announce", [local_info["B"] EXCEPT !.ip = NodeIp["B"]], OtherIp),
      packet("Response", local_info["B"], NodeIp["B"]),
      packet("Announce", local_info["A"], OtherIp),
      packet("Query", NoPeer, NodeIp["B"]),
      [packet("Announce", local_info["B"], NodeIp["B"]) EXCEPT !.size = MagicLen - 1],
      [packet("Announce", local_info["B"], NodeIp["B"]) EXCEPT !.magic = "SCRSHARX"],
      packet("Unparsable", NoPeer, NodeIp["B"]) }

InitDiscovery ==
    /\ AuxIdle
    /\ packetizer = RtpPacketizer_new
    /\ CallsIdle
    /\ SessionIdle
    /\ disc_now = 0
    /\ disc_up = {"A"}
    /\ peers = [n \in Node |-> << >>]
    /\ inbox = [n \in Node |-> << >>]
    /\ next_announce = [n \in Node |-> NoTimer]
    /\ proc_dg = [n \in Node |-> NoDatagram]
    /\ proc_ret = [n \in Node |-> NoPeer]
    /\ proc_sent = [n \in Node |-> << >>]
    /\ got = [n \in Node |-> {}]
    /\ heard = [n \in Node |-> << >>]

DiscEnvStep == \E dg \in EnvDatagrams : EnvSend("A", dg, MaxEnvQueue)

DiscGetStep == \E kind \in {"get_peers", "get_teachers", "get_students"} : DiscGet("A", kind)

DiscCommandStep ==
    \E kind \in {"cmd:get_discovered_peers", "cmd:get_teachers"} : DiscCommand("A", kind)

DiscTickStep == DiscTick(DiscTickSeconds, MaxDiscTime)

NextDiscovery ==
    \/ (Len(inbox["A"]) < MaxEnvQueue /\ DiscAnnounce("A"))
    \/ (Len(inbox["A"]) < MaxEnvQueue /\ DiscQuery("A"))
    \/ DiscEnvStep
    \/ DiscProcess("A")
    \/ DiscGetStep
    \/ DiscCommandStep
    \/ DiscTickStep

SpecDiscovery == InitDiscovery /\ [][NextDiscovery]_vars

\* ------------------------------------------------------------------------
\* SpecConverge: the services of A and B, created at the same time on one
\* subnet that loses nothing; each node announces itself every
\* ANNOUNCE_INTERVAL and calls its getters whenever it likes
\* ------------------------------------------------------------------------
MaxConvergeTime == 5

ConvergeTickSeconds == 1

\* the periodic announcement of a participant: Announce(PeerInfo), sent
\* every 2 s
AnnounceTimer(n) ==
    /\ n \in disc_up
    /\ next_announce[n] = disc_now
    /\ inbox' = Deliver(inbox, disc_up, packet("Announce", local_info[n], NodeIp[n]))
    /\ next_announce' = [next_announce EXCEPT ![n] = disc_now + ANNOUNCE_INTERVAL]
    /\ UNCHANGED << sessionVars, auxVars, disc_now, disc_up, peers, proc_dg, proc_ret, proc_sent, got, heard >>

InitConverge ==
    /\ AuxIdle
    /\ packetizer = RtpPacketizer_new
    /\ CallsIdle
    /\ SessionIdle
    /\ disc_now = 0
    /\ disc_up = Node
    /\ peers = [n \in Node |-> << >>]
    /\ inbox = [n \in Node |-> << >>]
    /\ next_announce = [n \in Node |-> 0]
    /\ proc_dg = [n \in Node |-> NoDatagram]
    /\ proc_ret = [n \in Node |-> NoPeer]
    /\ proc_sent = [n \in Node |-> << >>]
    /\ got = [n \in Node |-> {}]
    /\ heard = [n \in Node |-> << >>]

ConvergeAnnounceStep == \E n \in Node : AnnounceTimer(n)

ConvergeTickStep == DiscTick(ConvergeTickSeconds, MaxConvergeTime)

NextConverge ==
    \/ ConvergeAnnounceStep
    \/ ConvergeTickStep
    \/ DiscCommand("A", "cmd:get_discovered_peers")
    \/ DiscGet("A", "get_students")
    \/ DiscCommand("B", "cmd:get_teachers")

SpecConverge == InitConverge /\ [][NextConverge]_vars

\* ------------------------------------------------------------------------
\* SpecEncode: encode calls of a teacher whose encoder returns access units
\* of short NALs
\* ------------------------------------------------------------------------
MaxEncodes == 1

MaxEncodeNals == 2

\* NALs of one to three bytes: an IDR slice, an SPS, a non-IDR slice
EncodeNals ==
    { [hdr |-> h, n |-> n, sc |-> sc] : h \in {101, 103, 65}, n \in 1..3, sc \in {3, 4} }

EncodeAus == SeqsUpTo(EncodeNals, MaxEncodeNals) \ {<<>>}

EncodeStep ==
    \E au \in EncodeAus :
        /\ frame_count < MaxEncodes
        /\ TeacherIteration("frame", [err |-> FALSE, au |-> au], SendOk)

NextEncode == StartTeacher(TRUE) \/ EncodeStep

SpecEncode == InitTeacher /\ [][NextEncode]_vars

\* ------------------------------------------------------------------------
\* SpecDetect: the two keyframe detectors on a bitstream a, a bitstream b
\* and on a followed by b
\* ------------------------------------------------------------------------
MaxDetectNals == 1

\* bitstreams of whole NALs, each behind its start code: a split between
\* two of them does not cut through a start code
DetectAus == SeqsUpTo(EncodeNals, MaxDetectNals) \ {<<>>}

InitDetect ==
    /\ CaptureIdle
    /\ LifeIdle
    /\ RenderIdle
    /\ BytesIdle
    /\ DiscoveryIdle
    /\ packetizer = RtpPacketizer_new
    /\ CallsIdle
    /\ SessionIdle
    /\ detect_args \in DetectAus \X DetectAus
    /\ detect_rets = NoDetect

\* is_keyframe of the encoder and is_h264_keyframe of the viewer, each
\* called on a, on b and on a followed by b
Detect ==
    /\ detect_rets = NoDetect
    /\ \E a \in {AnnexB(detect_args[1])}, b \in {AnnexB(detect_args[2])} :
          detect_rets' =
              [enc |-> << is_keyframe(a), is_keyframe(b), is_keyframe(a \o b) >>,
               view |-> << is_h264_keyframe(a), is_h264_keyframe(b),
                           is_h264_keyframe(a \o b) >>]
    /\ UNCHANGED << sessionVars, discVars, detect_args, captureVars, lifeVars, renderVars, byteVars >>

NextDetect == Detect

SpecDetect == InitDetect /\ [][NextDetect]_vars

\* ------------------------------------------------------------------------
\* Properties of the packetizer and of the round trip
\* ------------------------------------------------------------------------
RECURSIVE AnnexB4(_)
AnnexB4(nals) ==
    IF nals = <<>> THEN <<>> ELSE StartCode4 \o Head(nals) \o AnnexB4(Tail(nals))

SeqOf(k) == RtpHeader_parse(call_packets[k]).sequence

MarkerOf(k) == RtpHeader_parse(call_packets[k]).marker

\* x * m modulo 2^32 on the four bytes of x
TimesMod32(x, m) == Reverse(MulLE(Reverse(x), m, 0))

\* C1: an access unit of valid NALs of any size behind 3-byte or 4-byte
\* start codes, packetized and fed in order to a fresh depacketizer, comes
\* back exactly once, on the last packet, with the same NALs in the same
\* order, each behind a start code.
C1_RoundTrip ==
    calls = 1 =>
        /\ Len(call_packets) >= 1
        /\ Len(call_frames) = Len(call_packets)
        /\ \A k \in 1..(Len(call_frames) - 1) : call_frames[k] = NoFrame
        /\ call_frames[Len(call_frames)] = AnnexB4(NalsOf(call_au))

\* a two-fragment NAL (1401 bytes) and a NAL behind the other start code
\* came back from the round trip
C1_Witness ==
    /\ calls = 1
    /\ Len(call_au) = 2
    /\ call_au[1].n = MAX_RTP_PAYLOAD + 1
    /\ call_au[2].n <= MAX_RTP_PAYLOAD
    /\ call_au[1].sc # call_au[2].sc
    /\ Len(call_packets) = 3
    /\ call_frames[3] = AnnexB4(NalsOf(call_au))

\* C7: across the packetize calls of a session, calls without packets
\* included, the emitted sequence numbers go up by one modulo 2^16: inside
\* the packets of a call, and from the last packet emitted before the call
\* to the first packet of the call.
C7_SequenceContiguous ==
    call_packets # <<>> =>
        /\ \A k \in 1..(Len(call_packets) - 1) : SeqOf(k + 1) = (SeqOf(k) + 1) % U16
        /\ prev_seq # NoSeq => SeqOf(1) = (prev_seq + 1) % U16

\* the sequence wrapped from 65535 to 0 inside a call that followed others
C7_Witness ==
    /\ calls >= 2
    /\ prev_seq # NoSeq
    /\ \E k \in 1..(Len(call_packets) - 1) : SeqOf(k) = U16 - 1 /\ SeqOf(k + 1) = 0

\* C8: the packets of a packetize call on an access unit with at least one
\* NAL are not empty, and the marker bit is set on the last of them and on
\* no other.
C8_MarkerOnLastOnly ==
    (calls = 1 /\ call_au # <<>>) =>
        /\ Len(call_packets) >= 1
        /\ \A k \in 1..Len(call_packets) : MarkerOf(k) <=> k = Len(call_packets)

\* two fragmented NALs: the E fragment of the first carries no marker
C8_Witness ==
    /\ calls = 1
    /\ Len(call_au) = 2
    /\ call_au[1].n > MAX_RTP_PAYLOAD
    /\ call_au[2].n > MAX_RTP_PAYLOAD
    /\ MarkerOf(Len(call_packets))
    /\ ~MarkerOf(2)

\* C9: every packet of a packetize(data, ts_ms) call carries the timestamp
\* ts_ms * 90 modulo 2^32, whatever the calls before it used.
C9_TimestampPerCall ==
    \A k \in 1..Len(call_packets) :
        RtpHeader_parse(call_packets[k]).timestamp = TimesMod32(call_ms, 90)

\* a later call with the first frame time whose timestamp wraps (47721859
\* ms, timestamp 14) and more than one packet
C9_Witness ==
    /\ calls >= 2
    /\ call_ms = << 2, 216, 45, 131 >>
    /\ Len(call_packets) >= 3
    /\ RtpHeader_parse(call_packets[1]).timestamp = << 0, 0, 0, 14 >>

\* the keyframe interval of a stream of fps frames per second
keyframe_interval(fps) == IF 2 * fps > 30 THEN 2 * fps ELSE 30

\* C5: the teacher emits a keyframe at least once in every keyframe_interval
\* = max(2*fps, 30) consecutively encoded frames: the number of frames
\* encoded since the last keyframe stays below the interval.
C5_KeyframeEveryInterval == since_keyframe < keyframe_interval(DefaultFps)

\* ------------------------------------------------------------------------
\* Properties of the pipeline
\* ------------------------------------------------------------------------
\* the NALs of the run in sending order, each with its access unit, its
\* place in it and the sequence numbers of its first and last packet
RECURSIVE NalSpans(_, _, _, _)
NalSpans(script, k, j, seq) ==
    IF k > Len(script) THEN <<>>
    ELSE IF j > Len(script[k]) THEN NalSpans(script, k + 1, 1, seq)
    ELSE LET c == PacketsOfNal(script[k][j].n)
         IN << [au |-> k, nal |-> j, first |-> seq, last |-> seq + c - 1] >>
            \o NalSpans(script, k, j + 1, seq + c)

\* for each run and each sequence number of it, the NAL the packet belongs to
SpanTable ==
    [script \in PipeScripts |->
        LET spans == NalSpans(script, 1, 1, 0)
        IN [q \in 0..(spans[Len(spans)].last) |->
               spans[CHOOSE i \in DOMAIN spans : spans[i].first <= q /\ q <= spans[i].last]]]

SpanOfSeq(q) == SpanTable[enc_script][q]

AuOfSeq(q) == SpanOfSeq(q).au

\* the packet that carries the marker of its access unit
IsMarkerSeq(q) ==
    LET sp == SpanOfSeq(q) IN q = sp.last /\ sp.nal = Len(enc_script[sp.au])

\* the NAL whose last packet is log[i] was accepted whole: its packets are
\* log[i - c + 1 .. i], in order, none before position lo
CompletedAt(log, lo, i) ==
    LET sp == SpanOfSeq(log[i])
        c == sp.last - sp.first + 1
    IN /\ log[i] = sp.last
       /\ i - c + 1 >= lo
       /\ \A t \in 0..(c - 1) : log[i - c + 1 + t] = sp.first + t

\* the bytes of the NALs of each access unit the encoder returns
NalBytes == [au \in PipeAus |-> NalsOf(au)]

\* the NALs of the access unit of the last accepted packet that were
\* accepted whole in log[lo..], in the order they were completed
RECURSIVE CompleteNals(_, _, _)
CompleteNals(log, lo, i) ==
    IF i > Len(log) THEN <<>>
    ELSE (IF AuOfSeq(log[i]) = AuOfSeq(log[Len(log)]) /\ CompletedAt(log, lo, i)
          THEN LET sp == SpanOfSeq(log[i])
               IN << NalBytes[enc_script[sp.au]][sp.nal] >>
          ELSE <<>>) \o CompleteNals(log, lo, i + 1)

\* where the packets of the access unit of the last accepted packet begin
\* that were accepted with no packet of another access unit in between
RECURSIVE RunStart(_, _)
RunStart(log, i) ==
    IF i > 1 /\ AuOfSeq(log[i - 1]) = AuOfSeq(log[Len(log)]) THEN RunStart(log, i - 1) ELSE i

\* where the packets of the access unit of the last accepted packet begin
FirstOfAu(log) ==
    CHOOSE i \in DOMAIN log :
        /\ AuOfSeq(log[i]) = AuOfSeq(log[Len(log)])
        /\ \A j \in 1..(i - 1) : AuOfSeq(log[j]) # AuOfSeq(log[Len(log)])

\* the access unit due when the last packet of log is accepted: nothing
\* unless it carries the marker, else the NALs of its access unit that were
\* accepted whole in log[lo..], each behind a start code
FrameDue(log, lo) ==
    IF ~IsMarkerSeq(log[Len(log)]) THEN NoFrame
    ELSE AnnexB4(CompleteNals(log, lo, lo))

\* C2, as claimed: when the marker packet of an access unit is accepted the
\* depacketizer emits the NALs of that access unit accepted whole until then
\* (single packets, and fragmented NALs whose packets S..E were accepted one
\* after another), and nothing of any other NAL; without marker, nothing.
C2_OnlyBrokenNalLost ==
    st_seq # NoSeq => st_frame = FrameDue(accepted, FirstOfAu(accepted))

\* C2, amended: the same, for the NALs accepted whole since the last packet
\* of another access unit was accepted (which clears the pending access unit).
C2_CompleteNalsOfRun ==
    st_seq # NoSeq => st_frame = FrameDue(accepted, RunStart(accepted, Len(accepted)))

\* the S fragment of the IDR slice was lost: the access unit is emitted on
\* the E fragment with the SPS alone
C2_Witness ==
    /\ enc_script[1] = PipeKeyAu
    /\ accepted = << 0, 2 >>
    /\ st_seq = 2
    /\ st_frame = AnnexB4(<< NalsOf(PipeKeyAu)[1] >>)

\* the types of the NALs in the Annex-B bytes of an access unit
NalTypesIn(frame) ==
    LET units == find_nal_units(frame)
    IN {units[k][1] % 32 : k \in {j \in DOMAIN units : units[j] # <<>>}}

\* the step is an iteration of the student loop that got an access unit
\* from receive_frame
GotAccessUnit == accepted' # accepted /\ st_frame' # NoFrame

Decoded == {"ok", "empty", "error"}

\* C3: while the student waits for a keyframe, an assembled access unit is
\* passed to the decoder if and only if it contains a NAL of type 5 or of
\* type 7, and is discarded otherwise; an admitted one ends the wait (unless
\* the decoder fails on it).
C3_WaitingAdmitsIdrOrSps ==
    [][(waiting_for_keyframe /\ GotAccessUnit) =>
          IF NalTypesIn(st_frame') \cap {5, 7} # {}
          THEN st_decode' \in Decoded /\ (st_decode' # "error" => ~waiting_for_keyframe')
          ELSE st_decode' = "discarded" /\ waiting_for_keyframe']_vars

C6_GapDropWaitsForKeyframe ==
    [][(accepted' # accepted /\ dep.fu_started /\ st_seq' # dep.expected_sequence) =>
          waiting_for_keyframe']_vars

\* C10: the access units are emitted in the order the teacher packetized
\* them.
C10_EmissionOrder ==
    \A i, j \in DOMAIN emitted :
        i < j => AuOfSeq(emitted[i].seq) < AuOfSeq(emitted[j].seq)

\* ------------------------------------------------------------------------
\* Properties of the native viewer
\* ------------------------------------------------------------------------
\* a push with drop-oldest semantics on a queue of the render capacity
DropOldestPush(queue, msg) ==
    IF Len(queue) < RenderCapacity THEN Append(queue, msg)
    ELSE Append(Tail(queue), msg)

\* the receive loop of the viewer decoded a picture in this step
DecodedPicture ==
    /\ GotAccessUnit
    /\ student_kind = "run_receiver"
    /\ st_decode' = "ok"

\* C11: when run_receiver pushes a decoded frame while the window is open,
\* the frame is enqueued, and on a full queue the oldest queued frame is
\* discarded to make room for it.
C11_DropOldest ==
    [][(DecodedPicture /\ window_pc = "loop") =>
          render_queue' = DropOldestPush(render_queue, st_seq')]_vars

\* the most recent of the frames pending in a queue (NoSeq: none pending)
MostRecent(queue) == IF queue = <<>> THEN NoSeq ELSE queue[Len(queue)]

C13_CancellationCompletes ==
    /\ [][(teacher_pc = "loop" /\ ~teacher_running) =>
             (frame_count' = frame_count /\ now_ms' = now_ms)]_vars
    /\ [][(student_pc = "loop" /\ ~student_running) =>
             (student_pc' # "recv" /\ accepted' = accepted /\ emitted' = emitted)]_vars
    /\ (teacher_pc = "loop" /\ ~teacher_running) ~> (teacher_pc = "stopped")
    /\ (StudentBound /\ ~student_running) ~> (student_pc = "stopped")
    /\ (viewer_pc = "joining") ~> (viewer_pc = "stopped")

\* the viewer was stopped while run_receiver was blocked in recv_from and
\* no datagram had ever arrived; the receiver thread has ended and stop has
\* returned
C13_Witness ==
    /\ viewer_pc = "stopped"
    /\ student_pc = "stopped"
    /\ ~student_running
    /\ teacher_pc = "idle"
    /\ accepted = <<>>

\* ------------------------------------------------------------------------
\* Errors of the teacher
\* ------------------------------------------------------------------------
\* C14: an iteration of the teacher loop that hits a capture, encoder or
\* send error ends the loop: the thread is stopped after it.
C14_ErrorEndsBroadcast ==
    [][(now_ms' # now_ms /\ teacher_log' \in {"capture error", "encode error", "send error"}) =>
          teacher_pc' = "stopped"]_vars

\* C15: when start_teacher or start_student has returned Ok, the pipeline
\* it spawned has started: its thread did not fail while building the
\* capture, the encoder, the decoder or the socket.
C15_OkMeansStarted ==
    start_result = "ok" => (teacher_pc # "failed" /\ student_pc # "failed")

\* ------------------------------------------------------------------------
\* Properties of the discovery service
\* ------------------------------------------------------------------------
\* C16: the peer table of a node never holds an entry under the node's own
\* id, and neither process() nor a getter ever reports the node itself.
C16_NoSelfEcho ==
    \A n \in Node :
        /\ local_info[n].id \notin DOMAIN peers[n]
        /\ proc_ret[n].id # local_info[n].id
        /\ \A p \in got[n] : p.id # local_info[n].id

\* node A has processed a well-formed Announce or Response that carries its
\* own id
C16_Witness ==
    /\ proc_dg["A"].kind \in {"Announce", "Response"}
    /\ proc_dg["A"].size >= MagicLen
    /\ proc_dg["A"].magic = DISCOVERY_MAGIC
    /\ proc_dg["A"].peer.id = local_info["A"].id
    /\ proc_ret["A"] = NoPeer

\* a getter of node n returns in this step
GetterReturns(n) ==
    \/ \E kind \in {"get_peers", "get_teachers", "get_students"} : DiscGet(n, kind)
    \/ \E kind \in {"cmd:get_discovered_peers", "cmd:get_teachers"} : DiscCommand(n, kind)

\* a getter that returns all roles returns in this step
GetPeersReturns(n) == DiscGet(n, "get_peers") \/ DiscCommand(n, "cmd:get_discovered_peers")

\* seconds since node n last processed an Announce or Response of peer id,
\* at the end of this step
AgeAfter(n, id) == disc_now' - heard'[n][id].at

\* C17: when a getter returns, no peer in the list and no entry left in the
\* table was last heard more than 10 s ago; get_peers lists every peer last
\* heard less than 10 s ago; and a peer whose Announce or Response is
\* processed is in the table afterwards, evicted before or not.
C17_PeerTimeout ==
    [][\A n \in Node :
          /\ GetterReturns(n) =>
                /\ \A p \in got'[n] :
                      p.id \in DOMAIN heard'[n] /\ AgeAfter(n, p.id) <= PEER_TIMEOUT
                /\ \A id \in DOMAIN peers'[n] : AgeAfter(n, id) <= PEER_TIMEOUT
          /\ GetPeersReturns(n) =>
                \A id \in DOMAIN heard'[n] :
                    AgeAfter(n, id) < PEER_TIMEOUT => \E p \in got'[n] : p.id = id
          /\ heard'[n] # heard[n] =>
                \A id \in DOMAIN heard'[n] :
                    AgeAfter(n, id) = 0 => id \in DOMAIN peers'[n]]_vars

\* get_peers of node A has evicted B, heard 10 s or more ago, and returned
\* an empty list
C17_Witness ==
    /\ "b" \in DOMAIN heard["A"]
    /\ disc_now - heard["A"]["b"].at >= PEER_TIMEOUT
    /\ "b" \notin DOMAIN peers["A"]
    /\ got["A"] = {}

\* C18: the ip of every PeerInfo in a peer table, and of every PeerInfo a
\* process() or a getter returns, is the source address of the datagram
\* that last inserted or refreshed the entry.
C18_IpIsSource ==
    [][\A n \in Node :
          /\ \A id \in DOMAIN peers'[n] : peers'[n][id].info.ip = heard'[n][id].src
          /\ proc_ret'[n] # NoPeer => proc_ret'[n].ip = proc_dg'[n].src
          /\ GetterReturns(n) => \A p \in got'[n] : p.ip = heard'[n][p.id].src]_vars

\* the table of node A holds B under an address that is neither the one
\* B's message advertised nor B's own
C18_Witness ==
    /\ "b" \in DOMAIN peers["A"]
    /\ peers["A"]["b"].info.ip = OtherIp
    /\ proc_dg["A"].peer.ip # OtherIp
    /\ \E p \in got["A"] : p.id = "b" /\ p.ip = OtherIp

\* the list holds the PeerInfo of node m under m's source address
ListsNode(list, m) == \E p \in list : p.id = local_info[m].id /\ p.ip = NodeIp[m]

\* C19: from 4 s after A and B were started, the list B.get_teachers()
\* returns holds A and the list A.get_students() returns holds B, each under
\* the other node's source address.
C19_ConvergesIn4s ==
    [][disc_now >= 2 * ANNOUNCE_INTERVAL =>
          /\ DiscCommand("B", "cmd:get_teachers") => ListsNode(got'["B"], "A")
          /\ DiscGet("A", "get_students") => ListsNode(got'["A"], "B")]_vars

\* ------------------------------------------------------------------------
\* Keyframe detection of the encoder
\* ------------------------------------------------------------------------
\* C20: the is_keyframe that encode returned is true exactly when the
\* bitstream it returned contains a NAL of type 5 or 7.
C20_KeyframeIff ==
    enc_au # <<>> =>
        (enc_keyframe <=> \E k \in 1..Len(enc_au) : (enc_au[k].hdr % 32) \in {5, 7})

\* C21: for bitstreams a and b split between whole NALs, each detector
\* answers true on a followed by b exactly when it answers true on a or
\* on b.
C21_DetectDistributes ==
    detect_rets # NoDetect =>
        /\ detect_rets.enc[3] <=> (detect_rets.enc[1] \/ detect_rets.enc[2])
        /\ detect_rets.view[3] <=> (detect_rets.view[1] \/ detect_rets.view[2])

\* ------------------------------------------------------------------------
\* The packetization rule
\* ------------------------------------------------------------------------
CeilDiv(a, b) == (a + b - 1) \div b

\* the number of packets the rule gives a NAL of n bytes
RulePackets(n) ==
    IF n <= MAX_RTP_PAYLOAD THEN 1 ELSE CeilDiv(n - 1, MAX_RTP_PAYLOAD - 2)

RECURSIVE RulePacketsBefore(_, _)
RulePacketsBefore(descs, k) ==
    IF k <= 1 THEN 0
    ELSE RulePacketsBefore(descs, k - 1) + RulePackets(descs[k - 1].n)

\* the payload of packet k of the last call
PayloadOf(k) == Slice(call_packets[k], RTP_HEADER_SIZE, Len(call_packets[k]))

RECURSIVE FragmentsOf(_, _)
FragmentsOf(first, count) ==
    IF count = 0 THEN <<>>
    ELSE Slice(PayloadOf(first), 2, Len(PayloadOf(first))) \o FragmentsOf(first + 1, count - 1)

StartBit(k) == (At(PayloadOf(k), 1) \div 128) % 2 = 1

EndBit(k) == (At(PayloadOf(k), 1) \div 64) % 2 = 1

\* NAL k of the last call was packetized by the rule, in the packets behind
\* those of the NALs before it
RuleHoldsFor(k) ==
    LET nal == Nal(call_au[k].hdr, call_au[k].n)
        first == RulePacketsBefore(call_au, k) + 1
        count == RulePackets(call_au[k].n)
        last == first + count - 1
    IN /\ last <= Len(call_packets)
       /\ IF Len(nal) <= MAX_RTP_PAYLOAD
          THEN PayloadOf(first) = nal
          ELSE /\ count >= 2
               /\ \A j \in first..last :
                     /\ At(PayloadOf(j), 0) % 32 = 28
                     /\ Len(PayloadOf(j)) - 2 <= MAX_RTP_PAYLOAD - 2
                     /\ StartBit(j) <=> j = first
                     /\ EndBit(j) <=> j = last
                     /\ ~(StartBit(j) /\ EndBit(j))
               /\ FragmentsOf(first, count) = Slice(nal, 1, Len(nal))

\* C22: every NAL of at most 1400 bytes leaves as one packet whose payload
\* is the NAL; every longer NAL of L bytes leaves as ceil((L-1)/1398) >= 2
\* FU-A packets whose fragments, of at most 1398 bytes, concatenate to the
\* NAL without its header byte, S on the first only and E on the last only;
\* no packet is longer than 1412 bytes.
C22_PacketizationRule ==
    calls = 1 =>
        /\ Len(call_packets) = RulePacketsBefore(call_au, Len(call_au) + 1)
        /\ \A k \in 1..Len(call_au) : RuleHoldsFor(k)
        /\ \A j \in 1..Len(call_packets) :
              /\ Len(PayloadOf(j)) <= MAX_RTP_PAYLOAD
              /\ Len(call_packets[j]) <= RTP_HEADER_SIZE + MAX_RTP_PAYLOAD

\* a NAL of 1400 bytes left as one packet and a NAL of 2798 bytes as three
\* fragments, the last of them of one byte
C22_Witness ==
    /\ calls = 1
    /\ Len(call_au) = 2
    /\ call_au[1].n = MAX_RTP_PAYLOAD
    /\ call_au[2].n = 2 * (MAX_RTP_PAYLOAD - 2) + 2
    /\ Len(call_packets) = 4
    /\ Len(PayloadOf(1)) = MAX_RTP_PAYLOAD
    /\ Len(PayloadOf(2)) = MAX_RTP_PAYLOAD
    /\ Len(PayloadOf(4)) = 3
    /\ StartBit(2) /\ EndBit(4) /\ ~EndBit(3)

\* ------------------------------------------------------------------------
\* The FU indicator and the FU header
\* ------------------------------------------------------------------------
\* h & 0xE0
Top3(h) == (h \div 32) * 32

\* C23: every packet of a fragmented NAL with header byte h begins with the
\* FU indicator (h & 0xE0) | 28 and the FU header (S << 7) | (E << 6) |
\* (h & 0x1F), R = 0, and the NAL the depacketizer returns behind its start
\* code begins with (indicator & 0xE0) | (FU header & 0x1F) = h.
C23_FuBytesCarryHeader ==
    (calls = 1 /\ Len(call_au) = 1 /\ call_au[1].n > MAX_RTP_PAYLOAD) =>
        LET h == call_au[1].hdr
            last == Len(call_packets)
        IN /\ \A j \in 1..last :
                 /\ At(PayloadOf(j), 0) = Top3(h) + 28
                 /\ At(PayloadOf(j), 1) =
                        BoolToInt(j = 1) * 128 + BoolToInt(j = last) * 64 + (h % 32)
           /\ call_frames[last] # NoFrame
           /\ At(call_frames[last], 4) =
                  Top3(At(PayloadOf(1), 0)) + (At(PayloadOf(1), 1) % 32)
           /\ At(call_frames[last], 4) = h

\* ------------------------------------------------------------------------
\* Properties of the depacketizer on datagrams of any sender
\* ------------------------------------------------------------------------
\* the student loop takes the next datagram from its socket
ReceiveStep == wire # <<>> /\ wire' = Tail(wire) /\ student_pc' = "loop"

\* shorter than 12 bytes, or version other than 2, or payload type other
\* than 96
NotRtpH264(datagram) ==
    \/ Len(datagram) < 12
    \/ (At(datagram, 0) \div 64) % 4 # 2
    \/ At(datagram, 1) % 128 # 96

\* C24: a datagram shorter than 12 bytes, of a version other than 2 or of a
\* payload type other than 96 yields no access unit and leaves every field
\* of the depacketizer as it was.
C24_StrayRejected ==
    [][(ReceiveStep /\ NotRtpH264(Head(wire))) =>
           (dep' = dep /\ st_frame' = NoFrame /\ emitted' = emitted)]_vars

\* a datagram of another version or payload type, with a sequence number
\* and a timestamp of its own and the marker set, was handled while an
\* access unit and a fragmented NAL were being assembled
C24_Witness ==
    /\ st_seq = StraySeq
    /\ dep.current_frame # <<>>
    /\ dep.fu_started
    /\ dep.expected_sequence \notin {NoSeq, StraySeq + 1}
    /\ dep.current_timestamp # InjectTimestamp(StrayTs)

IsPrefix(p, q) == Len(p) <= Len(q) /\ SubSeq(q, 1, Len(p)) = p

\* the access unit in assembly after a step, or the one the step returned
FrameAfter == IF st_frame' # NoFrame THEN st_frame' ELSE dep'.current_frame

SeqIn(datagram) == At(datagram, 2) * 256 + At(datagram, 3)

TimestampIn(datagram) == SubSeq(datagram, 5, 8)

\* the datagram passes the checks and its number is not the expected one
RevealsGap(datagram) ==
    /\ PassesChecks(datagram)
    /\ dep.expected_sequence # NoSeq
    /\ SeqIn(datagram) # dep.expected_sequence

\* C25: a packet whose sequence number is not the expected one clears the
\* FU buffer and the FU flag and leaves the current frame: the NALs
\* completed for its timestamp stay and leave with the marker packet.  The
\* packet itself is processed, and the next number expected is its own
\* plus one modulo 2^16.
C25_GapKeepsFrame ==
    [][(ReceiveStep /\ RevealsGap(Head(wire))) =>
        LET payload == Slice(Head(wire), RTP_HEADER_SIZE, Len(Head(wire)))
            is_fu == At(payload, 0) % 32 = 28
            is_start == is_fu /\ (At(payload, 1) \div 128) % 2 = 1
            is_end == is_fu /\ (At(payload, 1) \div 64) % 2 = 1
            marker == At(Head(wire), 1) >= 128
            same_ts == TimestampIn(Head(wire)) = dep.current_timestamp
            base == IF same_ts THEN dep.current_frame ELSE <<>>
        IN /\ dep'.expected_sequence = (SeqIn(Head(wire)) + 1) % U16
           /\ (is_fu /\ ~is_start) =>
                  (dep'.fu_buffer = <<>> /\ ~dep'.fu_started /\ FrameAfter = base)
           /\ (is_start /\ ~is_end) =>
                  /\ dep'.fu_started
                  /\ dep'.fu_buffer = << (At(payload, 0) \div 32) * 32 + (At(payload, 1) % 32) >>
                                         \o Slice(payload, 2, Len(payload))
           /\ ~is_fu =>
                  /\ dep'.fu_buffer = <<>> /\ ~dep'.fu_started
                  /\ FrameAfter = base \o StartCode4 \o payload
           /\ same_ts => IsPrefix(dep.current_frame, FrameAfter)
           /\ (marker /\ FrameAfter # <<>>) => st_frame' = FrameAfter]_vars

\* behind a slice and the S fragment of a NAL, the E fragment with the
\* marker arrived with a sequence number two too high, across the wrap of
\* the counter: the access unit left with the slice alone
C25_Witness ==
    /\ Len(accepted) = 3
    /\ accepted[2] = U16 - 1
    /\ accepted[3] = 2
    /\ st_frame = StartCode4 \o << 65, Tag(1) >>
    /\ dep.fu_buffer = <<>>
    /\ ~dep.fu_started
    /\ dep.expected_sequence = 3

\* the data bytes of the packets of a run: each names a timestamp
Tags == { Tag(t) : t \in 1..(MaxInject + 1) }

\* C26: an access unit the depacketizer returns holds no payload byte of a
\* packet whose timestamp differs from that of the packet that completed
\* it.
C26_NoBytesOfOtherTimestamp ==
    st_frame # NoFrame =>
        \A i \in 1..Len(st_frame) :
            st_frame[i] \in Tags => st_frame[i] = Tag(dep.current_timestamp[4])

\* the NALs aggregated in the body of a STAP-A, each behind a start code:
\* the body is a run of (size: u16 big-endian, bytes)
RECURSIVE StapFrame(_)
StapFrame(body) ==
    IF Len(body) < 2 THEN <<>>
    ELSE LET size == At(body, 0) * 256 + At(body, 1)
         IN IF size = 0 \/ 2 + size > Len(body) THEN <<>>
            ELSE StartCode4 \o Slice(body, 2, 2 + size)
                   \o StapFrame(Slice(body, 2 + size, Len(body)))

\* C27: a payload of type 1..23 is appended as one NAL behind a start code;
\* a payload of type 24 is split at its size fields and each aggregated NAL
\* is appended behind its own start code; a payload of type 0, 25..27 or
\* 29..31 leaves the current frame as it was.
C27_PayloadTypes ==
    [][(ReceiveStep /\ PassesChecks(Head(wire))) =>
        LET payload == Slice(Head(wire), RTP_HEADER_SIZE, Len(Head(wire)))
            type == At(payload, 0) % 32
            base == IF TimestampIn(Head(wire)) = dep.current_timestamp
                    THEN dep.current_frame ELSE <<>>
        IN /\ type \in 1..23 => FrameAfter = base \o StartCode4 \o payload
           /\ type = 24 => FrameAfter = base \o StapFrame(Slice(payload, 1, Len(payload)))
           /\ type \in {0, 25, 26, 27, 29, 30, 31} => FrameAfter = base]_vars

\* CSRC count of the RTP header
CsrcCountIn(datagram) == At(datagram, 0) % 16

\* C28: a packet whose CSRC count is greater than 0 yields no access unit
\* and leaves the reassembly state as it was: none of its bytes reach the
\* current frame or the FU buffer.
C28_CsrcRejected ==
    [][(ReceiveStep /\ ~NotRtpH264(Head(wire)) /\ CsrcCountIn(Head(wire)) > 0) =>
           (dep' = dep /\ st_frame' = NoFrame)]_vars

\* ------------------------------------------------------------------------
\* The NAL splitter on padded input
\* ------------------------------------------------------------------------
\* C29: zero bytes of padding in front of a start code belong to no NAL:
\* each NAL of the access unit is packetized from its header byte to its
\* last byte, whatever padding follows it.
C29_PaddingLeftOut ==
    calls = 1 =>
        /\ Len(call_packets) = Len(call_au)
        /\ \A k \in 1..Len(call_au) : PayloadOf(k) = Nal(call_au[k].hdr, call_au[k].n)

\* ------------------------------------------------------------------------
\* The discovery commands and the pending datagrams
\* ------------------------------------------------------------------------
\* get_discovered_peers or get_teachers of node n returns in this step
CommandReturns(n) ==
    \E kind \in {"cmd:get_discovered_peers", "cmd:get_teachers"} : DiscCommand(n, kind)

\* no pending datagram of node n is a query of n itself, whose answer would
\* arrive at the socket of n during the call
NoOwnQueryPending(n) ==
    \A i \in 1..Len(inbox[n]) : ~(inbox[n][i].kind = "Query" /\ inbox[n][i].src = NodeIp[n])

\* C30: get_discovered_peers and get_teachers process every datagram that
\* is pending on the socket when they are called: none of them is still
\* pending when the command returns, and every peer whose Announce or
\* Response was pending is in the peer table.
C30_CommandDrainsSocket ==
    [][\A n \in Node :
          (CommandReturns(n) /\ NoOwnQueryPending(n)) =>
              /\ inbox'[n] = << >>
              /\ \A i \in 1..Len(inbox[n]) :
                    LET dg == inbox[n][i]
                    IN (/\ dg.size >= MagicLen
                        /\ dg.magic = DISCOVERY_MAGIC
                        /\ dg.kind \in {"Announce", "Response"}
                        /\ dg.peer.id # local_info[n].id)
                       => dg.peer.id \in DOMAIN peers'[n]]_vars

\* ------------------------------------------------------------------------
\* Queries
\* ------------------------------------------------------------------------
\* process() does not drop the datagram before it parses its message
WellFormed(dg) == dg.size >= MagicLen /\ dg.magic = DISCOVERY_MAGIC /\ dg.kind # "Unparsable"

\* this step is a call of process() of node n that receives a Query
ProcessesQuery(n) ==
    /\ DiscProcess(n)
    /\ inbox[n] # << >>
    /\ WellFormed(Head(inbox[n]))
    /\ Head(inbox[n]).kind = "Query"

\* C31: on processing a Query a node sends exactly one Response carrying
\* its own PeerInfo, as a unicast datagram to the source address of the
\* Query, and leaves its peer table unchanged.
C31_QueryAnswered ==
    [][\A n \in Node :
          ProcessesQuery(n) =>
              /\ proc_sent'[n] = << [to |-> Head(inbox[n]).src,
                                     dg |-> packet("Response", local_info[n], NodeIp[n])] >>
              /\ proc_sent'[n][1].to # BroadcastIp
              /\ peers'[n] = peers[n]
              /\ proc_ret'[n] = NoPeer]_vars

C31_Witness ==
    /\ proc_dg["A"] = packet("Query", NoPeer, NodeIp["B"])
    /\ proc_sent["A"] = << [to |-> NodeIp["B"],
                            dg |-> packet("Response", local_info["A"], NodeIp["A"])] >>
    /\ DOMAIN peers["A"] # {}

\* ------------------------------------------------------------------------
\* Datagrams that are not discovery messages
\* ------------------------------------------------------------------------
\* this step is a call of process() of node n that receives a datagram
\* shorter than the magic, with another magic, or with a body that is not
\* the JSON of a message
ProcessesMalformed(n) ==
    /\ DiscProcess(n)
    /\ inbox[n] # << >>
    /\ ~WellFormed(Head(inbox[n]))

\* C32: a discovery datagram that is shorter than the 8-byte magic, does
\* not begin with SCRSHARE, or whose body is not valid JSON of a discovery
\* message is dropped: process() returns Ok(None), nothing is sent in
\* reply, and the peer table is unchanged.
C32_MalformedDropped ==
    [][\A n \in Node :
          ProcessesMalformed(n) =>
              /\ proc_ret'[n] = NoPeer
              /\ proc_sent'[n] = << >>
              /\ peers'[n] = peers[n]
              /\ heard'[n] = heard[n]
              /\ inbox'[n] = Tail(inbox[n])]_vars

C32_Witness ==
    /\ proc_dg["A"].kind = "Unparsable"
    /\ proc_ret["A"] = NoPeer
    /\ proc_sent["A"] = << >>
    /\ DOMAIN peers["A"] # {}
    /\ inbox["A"] # << >>

\* ------------------------------------------------------------------------
\* SpecCapture: capture_frame calls on one ScreenCapture, at any instants,
\* with a platform that returns a frame, WouldBlock or another error and
\* takes some time to do so
\* ------------------------------------------------------------------------
MaxCapTime == 70

\* the longest capturer.frame() takes, in ms
MaxFrameTime == 2

CaptureFps == {30, 60}

PlatformOutcomes == {"frame", "WouldBlock", "error"}

capture_frameNoLimit(last_capture, fps, now, outcome, dur) ==
    IF outcome = "frame"
    THEN [ret |-> "Some", asked |-> TRUE, now |-> now + dur, last_capture |-> now + dur]
    ELSE [ret |-> IF outcome = "WouldBlock" THEN "None" ELSE "Err",
          asked |-> TRUE, now |-> now + dur, last_capture |-> last_capture]

\* ScreenCapture::capture_frame called at instant now, on a platform whose
\* capturer.frame() takes dur ms and has this outcome: what it returns,
\* whether it asked the platform, the instant it returns at and
\* last_capture after it
capture_frame(last_capture, fps, now, outcome, dur) ==
    IF now - last_capture < frame_interval(fps)
    THEN [ret |-> "None", asked |-> FALSE, now |-> now, last_capture |-> last_capture]
    ELSE IF outcome = "frame"
    THEN [ret |-> "Some", asked |-> TRUE, now |-> now + dur, last_capture |-> now + dur]
    ELSE [ret |-> IF outcome = "WouldBlock" THEN "None" ELSE "Err",
          asked |-> TRUE, now |-> now + dur, last_capture |-> last_capture]

\* the instants of the last two frames, after one more at instant t
Remember(times, t) == IF Len(times) < 2 THEN Append(times, t) ELSE << times[2], t >>

\* a call of capture_frame
CaptureCall(outcome, dur) ==
    /\ cap_fps # 0
    /\ cap_clock + dur <= MaxCapTime
    /\ \E r \in {capture_frame(cap_last, cap_fps, cap_clock, outcome, dur)} :
          /\ cap_ret' = r.ret
          /\ cap_asked' = r.asked
          /\ cap_clock' = r.now
          /\ cap_last' = r.last_capture
          /\ cap_times' = IF r.ret = "Some" THEN Remember(cap_times, r.last_capture)
                          ELSE cap_times
    /\ UNCHANGED << sessionVars, discVars, detectVars, lifeVars, renderVars, byteVars, cap_fps, loop_pc, loop_start >>

\* a millisecond passes
CaptureTick ==
    /\ cap_clock < MaxCapTime
    /\ cap_clock' = cap_clock + 1
    /\ UNCHANGED << sessionVars, discVars, detectVars, lifeVars, renderVars, byteVars, cap_fps, cap_last, cap_ret,
                    cap_asked, cap_times, loop_pc, loop_start >>

\* ScreenCapture::new(fps) at instant 0
InitCapture ==
    /\ DetectIdle
    /\ LifeIdle
    /\ RenderIdle
    /\ BytesIdle
    /\ DiscoveryIdle
    /\ packetizer = RtpPacketizer_new
    /\ CallsIdle
    /\ SessionIdle
    /\ cap_clock = 0
    /\ cap_fps \in CaptureFps
    /\ cap_last = 0
    /\ cap_ret = "none"
    /\ cap_asked = FALSE
    /\ cap_times = << >>
    /\ loop_pc = "idle"
    /\ loop_start = NoInstant

CaptureCallStep == \E outcome \in PlatformOutcomes, dur \in 0..MaxFrameTime : CaptureCall(outcome, dur)

NextCapture == CaptureCallStep \/ CaptureTick

SpecCapture == InitCapture /\ [][NextCapture]_vars

\* C33: capture_frame returns None, without asking the platform for a
\* frame, whenever fewer than 1000/fps ms have elapsed since the last
\* successful capture; only a successful capture restarts that window (a
\* WouldBlock result does not), so any two successful captures are at
\* least 1000/fps ms apart, and a WouldBlock from the platform is returned
\* as None, not as an error.
C33_RateLimit ==
    [][CaptureCallStep =>
          /\ (cap_times # << >> /\ cap_clock - cap_times[Len(cap_times)] < 1000 \div cap_fps)
                => (cap_ret' = "None" /\ ~cap_asked')
          /\ cap_ret' # "Some" => (cap_last' = cap_last /\ cap_times' = cap_times)
          /\ cap_ret' = "Some" => cap_last' = cap_clock'
          /\ Len(cap_times') = 2 => cap_times'[2] - cap_times'[1] >= 1000 \div cap_fps
          /\ (\E dur \in 0..MaxFrameTime : CaptureCall("WouldBlock", dur)) => cap_ret' = "None"]_vars

C33_Witness ==
    /\ Len(cap_times) = 2
    /\ cap_times[2] - cap_times[1] = 1000 \div cap_fps
    /\ cap_ret = "None"
    /\ cap_asked
    /\ cap_clock - cap_last > 1000 \div cap_fps

\* ------------------------------------------------------------------------
\* SpecLife: the start, stop and is_running commands of both pipelines,
\* called in any order and from two callers at a time, and the threads
\* they spawn
\* ------------------------------------------------------------------------
\* the threads of pipeline p that have not returned from run_teacher or
\* run_student
Alive(p) == {t \in ThreadId : life_threads[p][t] \in {"init", "loop"}}

\* the threads of pipeline p that are in the while loop
InLoop(p) == {t \in ThreadId : life_threads[p][t] = "loop"}

\* start_teacher, start_student: the test of the flag (commands.rs:117-119,
\* 296-298); the lock is released at the end of the if
StartCheck(p, c) ==
    /\ life_calls[p][c] = "idle"
    /\ IF life_running[p]
       THEN /\ life_ret' = [life_ret EXCEPT ![p].start = "err"]
            /\ UNCHANGED life_calls
       ELSE /\ life_calls' = [life_calls EXCEPT ![p][c] = "checked"]
            /\ UNCHANGED life_ret
    /\ UNCHANGED << sessionVars, discVars, detectVars, captureVars, renderVars, byteVars, life_running, life_threads >>

\* start_teacher, start_student: the flag is set, the thread spawned and
\* Ok(()) returned (commands.rs:121-131, 300-310)
StartSpawn(p, c) ==
    /\ life_calls[p][c] = "checked"
    /\ \E t \in ThreadId :
          /\ life_threads[p][t] = "none"
          /\ \A u \in 1..(t - 1) : life_threads[p][u] # "none"
          /\ life_threads' = [life_threads EXCEPT ![p][t] = "init"]
    /\ life_running' = [life_running EXCEPT ![p] = TRUE]
    /\ life_calls' = [life_calls EXCEPT ![p][c] = "idle"]
    /\ life_ret' = [life_ret EXCEPT ![p].start = "ok"]
    /\ UNCHANGED << sessionVars, discVars, detectVars, captureVars, renderVars, byteVars >>

\* run_teacher, run_student up to the loop: capture, encoder and sender, or
\* receiver and decoder, are built; when one of them fails the function
\* returns the error through ? and the closure logs it
ThreadInit(p, t, ok) ==
    /\ life_threads[p][t] = "init"
    /\ life_threads' = [life_threads EXCEPT ![p][t] = IF ok THEN "loop" ELSE "ended"]
    /\ UNCHANGED << sessionVars, discVars, detectVars, captureVars, renderVars, byteVars, life_running, life_calls,
                    life_ret >>

\* while *running.lock(): the thread reads the flag as false and returns
ThreadExit(p, t) ==
    /\ life_threads[p][t] = "loop"
    /\ ~life_running[p]
    /\ life_threads' = [life_threads EXCEPT ![p][t] = "ended"]
    /\ UNCHANGED << sessionVars, discVars, detectVars, captureVars, renderVars, byteVars, life_running, life_calls,
                    life_ret >>

\* stop_teacher, stop_student
Stop(p) ==
    /\ life_running[p]
    /\ life_running' = [life_running EXCEPT ![p] = FALSE]
    /\ UNCHANGED << sessionVars, discVars, detectVars, captureVars, renderVars, byteVars, life_calls, life_threads,
                    life_ret >>

\* is_teacher_running, is_student_running
IsRunning(p) ==
    /\ life_ret' = [life_ret EXCEPT ![p].is_running = IF life_running[p] THEN "true" ELSE "false"]
    /\ UNCHANGED << sessionVars, discVars, detectVars, captureVars, renderVars, byteVars, life_running, life_calls,
                    life_threads >>

InitLife ==
    /\ DetectIdle
    /\ CaptureIdle
    /\ RenderIdle
    /\ BytesIdle
    /\ DiscoveryIdle
    /\ packetizer = RtpPacketizer_new
    /\ CallsIdle
    /\ SessionIdle
    /\ LifeIdle

LifeStartCheck == \E p \in Pipeline, c \in Caller : StartCheck(p, c)

LifeStartSpawn == \E p \in Pipeline, c \in Caller : StartSpawn(p, c)

LifeThreadInit == \E p \in Pipeline, t \in ThreadId, ok \in BOOLEAN : ThreadInit(p, t, ok)

LifeThreadExit == \E p \in Pipeline, t \in ThreadId : ThreadExit(p, t)

LifeStop == \E p \in Pipeline : Stop(p)

LifeIsRunning == \E p \in Pipeline : IsRunning(p)

NextLife ==
    \/ LifeStartCheck
    \/ LifeStartSpawn
    \/ LifeThreadInit
    \/ LifeThreadExit
    \/ LifeStop
    \/ LifeIsRunning

SpecLife == InitLife /\ [][NextLife]_vars

\* C34: at any time at most one Teacher broadcast thread and at most one
\* Student receive thread are executing their loop: a start call made while
\* the pipeline is running fails with an error and starts nothing, and this
\* holds for every interleaving of start and stop calls, including two
\* concurrent start calls and a stop immediately followed by a start.
C34_AtMostOneThread == \A p \in Pipeline : Cardinality(InLoop(p)) <= 1

\* C35: is_teacher_running() (is_student_running()) returns true only
\* while the corresponding pipeline thread is alive: whenever that thread
\* has terminated, whether after a stop call or because its initialisation
\* failed, the running flag is false and a later start call is accepted.
C35_RunningOnlyWhileAlive ==
    [][\A p \in Pipeline :
          IsRunning(p) => (life_ret'[p].is_running = "true" => Alive(p) # {})]_vars

\* ------------------------------------------------------------------------
\* SpecLoss: a teacher, a network that loses datagrams and delivers the
\* others in the order they were sent, a student
\* ------------------------------------------------------------------------
NextLoss ==
    \/ PipeTeacherStep
    \/ NetLose
    \/ StudentBlock
    \/ PipeStudentStep
    \/ StudentTimeout

SpecLoss == InitPipe /\ [][NextLoss]_vars

\* the sequences of NALs taken from nals in their order
RECURSIVE OrderedSelections(_)
OrderedSelections(nals) ==
    IF nals = <<>> THEN {<<>>}
    ELSE LET rest == OrderedSelections(Tail(nals))
         IN rest \cup {<< Head(nals) >> \o r : r \in rest}

\* for each access unit of the sender, the access units made of some of
\* its NALs, whole and in its order, each behind a start code
PartsOfAu == [au \in PipeAus |-> {AnnexB4(sel) : sel \in OrderedSelections(NalBytes[au]) \ {<<>>}}]

\* C36: for a stream of one RtpPacketizer whose access units have pairwise
\* different timestamps, delivered in order with arbitrary loss, every
\* access unit the depacketizer emits consists only of complete, unmodified
\* NALs of one single sender access unit, in the sender's order, and is
\* emitted when the marker packet of that access unit is processed; none
\* mixes NALs of two sender access units.
C36_LossKeepsAccessUnitsApart ==
    st_frame # NoFrame =>
        /\ st_seq # NoSeq
        /\ IsMarkerSeq(st_seq)
        /\ st_frame \in PartsOfAu[enc_script[AuOfSeq(st_seq)]]

\* the fragments of the IDR slice of the first access unit were lost, its
\* marker with them: the SPS accepted before is not emitted with the
\* second access unit
C36_Witness ==
    /\ enc_script = << PipeKeyAu, PipeSmallAu >>
    /\ accepted = << 0, 3 >>
    /\ st_seq = 3
    /\ st_frame = AnnexB4(NalsOf(PipeSmallAu))

\* ------------------------------------------------------------------------
\* SpecPacing: the loop of run_teacher with its capturer. The platform has
\* a frame, or none, whenever it is asked and takes up to MaxFrameTime ms;
\* capture, encode and send together take less than a frame interval;
\* thread::sleep returns up to MaxOversleep ms late
\* ------------------------------------------------------------------------
MaxPaceTime == 110

MaxOversleep == 2

\* how long the encoder and the sender take to initialise, after the test
\* capture
PaceInitTimes == {1, 40}

\* let frame_start = Instant::now() (commands.rs:193)
PaceTop ==
    /\ loop_pc = "top"
    /\ loop_start' = cap_clock
    /\ loop_pc' = "capture"
    /\ UNCHANGED << sessionVars, discVars, detectVars, lifeVars, renderVars, byteVars, cap_clock, cap_fps, cap_last,
                    cap_ret, cap_asked, cap_times >>

\* capture.capture_frame() (commands.rs:196)
PaceCapture(outcome, dur) ==
    /\ loop_pc = "capture"
    /\ \E r \in {capture_frame(cap_last, cap_fps, cap_clock, outcome, dur)} :
          /\ cap_ret' = r.ret
          /\ cap_asked' = r.asked
          /\ cap_clock' = r.now
          /\ cap_last' = r.last_capture
          /\ cap_times' = IF r.ret = "Some" THEN Remember(cap_times, r.last_capture)
                          ELSE cap_times
          /\ loop_pc' = IF r.ret = "Some" THEN "work" ELSE "sleep"
    /\ UNCHANGED << sessionVars, discVars, detectVars, lifeVars, renderVars, byteVars, cap_fps, loop_start >>

\* encoder.encode and sender.send_frame (commands.rs:202-232), w ms
PaceWork(w) ==
    /\ loop_pc = "work"
    /\ (cap_clock + w) - loop_start < frame_interval(cap_fps)
    /\ cap_clock' = cap_clock + w
    /\ loop_pc' = "sleep"
    /\ UNCHANGED << sessionVars, discVars, detectVars, lifeVars, renderVars, byteVars, cap_fps, cap_last, cap_ret,
                    cap_asked, cap_times, loop_start >>

\* the frame rate control (commands.rs:271-274): thread::sleep returns
\* late ms after the time asked for
PaceSleep(late) ==
    /\ loop_pc = "sleep"
    /\ loop_start + frame_interval(cap_fps) + late <= MaxPaceTime
    /\ cap_clock' = IF cap_clock - loop_start < frame_interval(cap_fps)
                    THEN loop_start + frame_interval(cap_fps) + late
                    ELSE cap_clock
    /\ loop_pc' = "top"
    /\ UNCHANGED << sessionVars, discVars, detectVars, lifeVars, renderVars, byteVars, cap_fps, cap_last, cap_ret,
                    cap_asked, cap_times, loop_start >>

\* the loop is entered: the test capture was taken at instant 0
InitPacing ==
    /\ DetectIdle
    /\ LifeIdle
    /\ RenderIdle
    /\ BytesIdle
    /\ DiscoveryIdle
    /\ packetizer = RtpPacketizer_new
    /\ CallsIdle
    /\ SessionIdle
    /\ cap_fps \in CaptureFps
    /\ cap_clock \in PaceInitTimes
    /\ cap_last = 0
    /\ cap_ret = "none"
    /\ cap_asked = FALSE
    /\ cap_times = << 0 >>
    /\ loop_pc = "top"
    /\ loop_start = NoInstant

PaceCaptureStep ==
    \E outcome \in {"frame", "WouldBlock"}, dur \in 0..MaxFrameTime : PaceCapture(outcome, dur)

PaceWorkStep == \E w \in 0..MaxFrameTime : PaceWork(w)

PaceSleepStep == \E late \in 0..MaxOversleep : PaceSleep(late)

NextPacing == PaceTop \/ PaceCaptureStep \/ PaceWorkStep \/ PaceSleepStep

SpecPacing == InitPacing /\ [][NextPacing]_vars

\* C37: when capture, encode and send together take less than one frame
\* interval, the capturer's own rate limiter never rejects the call the
\* loop makes after its pacing sleep, so the loop obtains a frame from
\* capture_frame on every iteration.
C37_LimiterNeverRejects ==
    [][(PaceCaptureStep /\ cap_ret # "none") => cap_asked']_vars

\* ------------------------------------------------------------------------
\* SpecRender: a teacher, a native viewer that has been started, and its
\* window thread, whose RedrawRequested handler takes the frames from the
\* render channel one try_recv at a time while run_receiver goes on
\* ------------------------------------------------------------------------
WindowRedrawBeginKeepsLatest ==
    /\ window_pc = "loop"
    /\ window_pc' = "drain"
    /\ redraw_pending' = IF redraw_pending = << >> THEN << >>
                         ELSE << redraw_pending[Len(redraw_pending)] >>
    /\ UNCHANGED << rtpVars, teacherVars, wire, studentVars, render_queue, viewer_pc,
                    redraw_shown, discVars, auxVars >>

\* WindowEvent::RedrawRequested begins: let mut latest_frame = None
\* (native_viewer.rs:319-321)
WindowRedrawBegin ==
    /\ window_pc = "loop"
    /\ window_pc' = "drain"
    /\ redraw_pending' = << >>
    /\ UNCHANGED << rtpVars, teacherVars, wire, studentVars, render_queue, viewer_pc,
                    redraw_shown, discVars, auxVars >>

\* one round of the loop of RedrawRequested (native_viewer.rs:322-340):
\* try_recv returns a frame, which becomes latest_frame; or Empty, and the
\* handler renders latest_frame, if any, and asks for the next redraw; or
\* Disconnected, and the handler leaves the event loop
WindowTryRecv ==
    /\ window_pc = "drain"
    /\ IF render_queue # << >>
       THEN /\ render_queue' = Tail(render_queue)
            /\ redraw_pending' = Append(redraw_pending, Head(render_queue))
            /\ UNCHANGED << window_pc, redraw_shown, rendered >>
       ELSE IF Disconnected
       THEN /\ window_pc' = "exited"
            /\ redraw_shown' = NoSeq
            /\ UNCHANGED << render_queue, redraw_pending, rendered >>
       ELSE /\ window_pc' = "loop"
            /\ redraw_shown' = IF redraw_pending = << >> THEN NoSeq
                               ELSE redraw_pending[Len(redraw_pending)]
            /\ rendered' = IF redraw_pending = << >> THEN rendered
                           ELSE Append(rendered, redraw_pending[Len(redraw_pending)])
            /\ UNCHANGED << render_queue, redraw_pending >>
    /\ UNCHANGED << rtpVars, teacherVars, wire, studentVars, viewer_pc, discVars, detectVars,
                    captureVars, lifeVars, byteVars >>

\* NativeViewer::start has returned: run_receiver is in its loop, the
\* window thread in its event loop
InitRender ==
    /\ AuxIdle
    /\ DiscoveryIdle
    /\ packetizer = RtpPacketizer_new
    /\ CallsIdle
    /\ teacher_pc = "loop"
    /\ teacher_running = TRUE
    /\ now_ms = 0
    /\ frame_count = 0
    /\ since_keyframe = 0
    /\ enc_script \in ViewScripts
    /\ wire = <<>>
    /\ student_kind = "run_receiver"
    /\ student_pc = "loop"
    /\ student_running = TRUE
    /\ dep = RtpDepacketizer_new
    /\ waiting_for_keyframe = TRUE
    /\ st_seq = NoSeq
    /\ st_frame = NoFrame
    /\ st_decode = "none"
    /\ accepted = <<>>
    /\ emitted = <<>>
    /\ teacher_log = "none"
    /\ start_result = "ok"
    /\ enc_au = <<>>
    /\ enc_keyframe = FALSE
    /\ render_queue = <<>>
    /\ window_pc = "loop"
    /\ viewer_pc = "started"
    /\ redraw_pending = <<>>
    /\ redraw_shown = NoSeq

NextRender ==
    \/ PipeTeacherStep
    \/ StudentBlock
    \/ PipeStudentStep
    \/ StudentTimeout
    \/ StudentExit
    \/ ViewerStop
    \/ ViewerStopReturn
    \/ ViewerDrop
    \/ WindowRedrawBegin
    \/ WindowTryRecv
    \/ WindowClose
    \/ WindowAboutToWait

SpecRender == InitRender /\ [][NextRender]_vars

\* this step is an iteration of run_receiver that decoded a frame and
\* handed it to the render channel
HandsOver == PipeStudentStep /\ st_decode' = "ok"

\* C38: the receive/decode thread never blocks on the render hand-off and
\* the hand-off queue never holds more than 2 frames: whatever the window
\* thread does (slow, stalled or exited), handing over a decoded frame
\* completes immediately, the frame being either enqueued or dropped, so
\* the thread keeps reading the socket and checking its cancel flag.
C38_HandOffNeverBlocks ==
    [][/\ Len(render_queue') <= 2
       /\ HandsOver =>
             /\ student_pc' = "loop"
             /\ \/ render_queue' = Append(render_queue, st_seq')
                \/ render_queue' = render_queue]_vars

\* the window thread has not taken a frame since two were queued: the
\* third decoded frame is dropped and run_receiver is back in its loop
C38_Witness ==
    /\ Len(render_queue) = 2
    /\ st_decode = "ok"
    /\ st_seq \notin {render_queue[1], render_queue[2]}
    /\ student_pc = "loop"
    /\ window_pc \in {"loop", "drain"}

\* the frames run_receiver decoded, in decode order
RECURSIVE DecodedFrames(_)
DecodedFrames(log) ==
    IF log = << >> THEN << >>
    ELSE (IF Head(log).decode = "ok" THEN << Head(log).seq >> ELSE << >>)
            \o DecodedFrames(Tail(log))

\* a can be had from b by leaving elements out
RECURSIVE IsSubsequence(_, _)
IsSubsequence(a, b) ==
    IF a = << >> THEN TRUE
    ELSE IF b = << >> THEN FALSE
    ELSE IF Head(a) = Head(b) THEN IsSubsequence(Tail(a), Tail(b))
    ELSE IsSubsequence(a, Tail(b))

\* C39: the window thread renders frames in decode order: it never renders
\* a frame that was decoded before a frame it has already rendered, and it
\* renders each decoded frame at most once, for every interleaving of the
\* decode thread's pushes and the window thread's redraws.
C39_RendersInDecodeOrder == IsSubsequence(rendered, DecodedFrames(emitted))

\* the window took the first frame, run_receiver queued two more while the
\* handler was in its loop, and the handler rendered the third; the next
\* redraw found nothing
C39_Witness ==
    /\ Len(DecodedFrames(emitted)) = 3
    /\ rendered = << DecodedFrames(emitted)[3] >>
    /\ Len(redraw_pending) = 3
    /\ window_pc = "loop"

\* ------------------------------------------------------------------------
\* SpecBytes: packetize calls on arbitrary short byte sequences
\* ------------------------------------------------------------------------
MaxInputLen == 4

MaxByteCalls == 2

\* the byte values find_nal_units tells apart (0 and 1), and a NAL header
InputBytes == {0, 1, 101}

RECURSIVE BytesOfLen(_)
BytesOfLen(n) ==
    IF n = 0 THEN {<< >>}
    ELSE {Append(d, b) : d \in BytesOfLen(n - 1), b \in InputBytes}

\* every h264_data of at most MaxInputLen bytes
ByteInputs == UNION {BytesOfLen(n) : n \in 0..MaxInputLen}

\* data[i] panics when i is not below data.len()
OutOfBounds(data, i) == i >= Len(data)

\* whether evaluating the first condition of nal_start (rtp.rs:234) reads
\* out of bounds: data[start] == 0 && data[start+1] == 0 && data[start+2] == 1
\* is evaluated left to right and stops at the first false operand; the
\* second condition (rtp.rs:236) is guarded by start + 4 <= data.len()
NalStartPanics(data, start) ==
    \/ OutOfBounds(data, start)
    \/ /\ At(data, start) = 0
       /\ \/ OutOfBounds(data, start + 1)
          \/ /\ At(data, start + 1) = 0
             /\ OutOfBounds(data, start + 2)

\* whether find_nal_units panics (rtp.rs:192-247). The reads of the loop
\* are guarded: i + 3 < data.len() at line 199, i + 4 < data.len() at line
\* 202 and start + 3 < i at line 211; the reads at line 234 are guarded by
\* start < data.len() only
find_nal_unitsPanics(data) ==
    LET r == FindLoop(data, StartCodes(data), <<>>, 0, 0)
    IN r.start < Len(data) /\ NalStartPanics(data, r.start)

\* one packetize call on raw bytes (rtp.rs:174-190): the timestamp is
\* assigned at line 178, before find_nal_units runs; a panic unwinds out of
\* the call and nothing is returned
PacketizeBytes(data, ms) ==
    /\ call_outcome # "panicked"
    /\ call_data' = data
    /\ call_ms' = ms
    /\ calls' = calls + 1
    /\ IF find_nal_unitsPanics(data)
       THEN /\ call_outcome' = "panicked"
            /\ packetizer' = [packetizer EXCEPT !.timestamp = RtpTimestamp(ms)]
            /\ UNCHANGED call_packets
       ELSE \E r \in {packetize(packetizer, data, ms)} :
               /\ call_outcome' = "returned"
               /\ packetizer' = r.p
               /\ call_packets' = r.packets
    /\ UNCHANGED << call_au, call_frames, prev_seq, teacherVars, wire, studentVars,
                    viewerVars, discVars, detectVars, captureVars, lifeVars, renderVars >>

InitBytes ==
    /\ DetectIdle /\ CaptureIdle /\ LifeIdle /\ RenderIdle
    /\ BytesIdle
    /\ DiscoveryIdle
    /\ packetizer \in {[RtpPacketizer_new EXCEPT !.sequence = s] : s \in StartSequences}
    /\ CallsIdle
    /\ SessionIdle

PacketizeBytesStep ==
    \E data \in ByteInputs, ms \in {U32Zero, << 0, 0, 0, 33 >>} :
        calls < MaxByteCalls /\ PacketizeBytes(data, ms)

NextBytes == PacketizeBytesStep

SpecBytes == InitBytes /\ [][NextBytes]_vars

\* inputs that hold no NAL whatever the reading: nothing at all, or a start
\* code with nothing behind it
NoNalInputs == {<< >>, << 0, 0, 1 >>, << 0, 0, 0, 1 >>}

\* C40: every packetize call returns normally, whatever bytes it is given,
\* and a call on an input without a NAL returns no packet and leaves the
\* sequence counter as it was
C40_PacketizeAlwaysReturns ==
    [][PacketizeBytesStep =>
         /\ call_outcome' = "returned"
         /\ call_data' \in NoNalInputs =>
               /\ call_packets' = << >>
               /\ packetizer'.sequence = packetizer.sequence]_vars

====
